---- MODULE Spec2Model ----
(***************************************************************************)
(* State-machine model of the arm teleoperation control of                 *)
(* hebi-python-examples: kits/arm/mobile_io_teleop_control.py              *)
(* (ArmControlState, ArmMobileIOInputs, ArmControl and the main control    *)
(* loop).                                                                  *)
(*                                                                         *)
(* Time is counted in ticks of 1/TicksPerSecond seconds.  The SDK objects  *)
(* (hebi Arm, Gripper, MobileIO) are the environment: what they report     *)
(* (arm.at_goal, mio.update's result, button states, the outcome of the    *)
(* velocity-norm comparisons) is chosen nondeterministically, and the      *)
(* calls made on them are recorded in `calls`.                             *)
(***************************************************************************)
EXTENDS Integers, Sequences, FiniteSets, TLC

\* ---------------------------------------------------------------- bounds
\* the clock resolution, and how many ticks past one disconnect timeout the
\* clock runs
TicksPerSecond == 2
MaxOvertime == 2
MaxTime == 1 * TicksPerSecond + MaxOvertime
Time == 0..MaxTime
\* the joints of the arm (arm.size), and the largest timestamp handed to the
\* input sampler, in units of 0.01 s
NumJoints == 3
MaxStamp == 2
Stamps == 0..MaxStamp

\* ------------------------------------------------------------- constants
\* update(): `t_now - self.last_input_time > 1.0`
DisconnectTimeout == 1 * TicksPerSecond
\* ArmControl.__init__ never assigns last_input_time: the attribute is absent
Unset == -1

\* class ArmControlState(Enum)
STARTUP == "STARTUP"
HOMING == "HOMING"
TELEOP == "TELEOP"
DISCONNECTED == "DISCONNECTED"
EXIT == "EXIT"
ArmControlState == {STARTUP, HOMING, TELEOP, DISCONNECTED, EXIT}

\* class ArmMobileIOInputs.TrajType(Enum), and mode = None
JOINT == "JOINT"
CARTESIAN == "CARTESIAN"
ModeNone == "None"
TrajType == {JOINT, CARTESIAN}

\* the goal the arm was last given: none yet, hebi.arm.Goal with the single
\* waypoint arm_home, or the goal built by compute_arm_goal
NoGoal == "none"
HomeGoal == "home"
TeleopGoal == "teleop"
Goals == {NoGoal, HomeGoal, TeleopGoal}

\* what the SDK does on a tick: "none", every call returns; "ik",
\* arm.ik_target_xyz_so3 finds no solution and raises; "arm", arm.update()
\* raises an error of the motion layer
Faults == {"none", "ik", "arm"}
\* the exception of a failed inverse kinematics
IKError == "NoIKSolution"

\* an ArmMobileIOInputs object as ArmControl.update reads it; present = FALSE
\* stands for arm_input = None
ArmInputs ==
    [present : {TRUE}, locked : BOOLEAN, active : BOOLEAN,
     gripper_closed : BOOLEAN, mode : TrajType \cup {ModeNone}]
NoInput ==
    [present |-> FALSE, locked |-> FALSE, active |-> FALSE,
     gripper_closed |-> FALSE, mode |-> ModeNone]

\* ArmMobileIOInputs.__init__: self.dt = 0.01, in units of 0.01 s
DefaultDt == 1
\* the device controls parse_mobile_feedback reads for the velocities:
\* buttons 1..num_joints-2 drive the joints 2..num_joints-1, button 7 flips
\* the direction, axes 8, 7 and 5 give the Cartesian velocity
JointButtons == 1..(NumJoints - 2)
DeviceButtons == JointButtons \cup {7}
DeviceAxes == {5, 7, 8}
\* a feedback of the device; an axis is in [-1, 1]
Feedbacks == [buttons : [DeviceButtons -> BOOLEAN], axes : [DeviceAxes -> {-1, 0, 1}]]

VARIABLES
    state,            \* ArmControl.state
    last_input_time,  \* ArmControl.last_input_time (Unset: no such attribute)
    goal,             \* the arm's current goal (arm.set_goal)
    has_gripper,      \* arm.end_effector is not None
    gripper_state,    \* arm.end_effector.state: 1 closed, 0 open
    calls,            \* SDK calls made by the last operation, in order
    ret,              \* what the last operation returned
    raised,           \* the exception the last operation raised, or "none"
    op,               \* the last operation and its arguments
    now,              \* the wall clock, time()
    pc,               \* position of the main control loop
    t,                \* the loop's local t
    mio,              \* the button states the MobileIO last received
    arm_inputs,       \* the loop's ArmMobileIOInputs object
    silent_since,     \* time of the first of the current run of failed mio.update
    interrupted,      \* a KeyboardInterrupt was delivered
    iter,             \* what the current loop iteration has done so far
    sampler,          \* ArmMobileIOInputs: t, dt, joint_direction and velocities
    device,           \* the MobileIO: its last feedback, and mio.update's result
    homing,           \* history kept by RunSpec: "pending" since a home goal was
                      \* set, "reached" once update has read arm.at_goal as true
    filter,           \* ArmMobileIOInputs: smoothed velocities, displacements, mode
    planner,          \* the arm's commanded position and the last compute_arm_goal
    follower,         \* LeaderFollowerControl of the MAPS demo
    hebi_thread,      \* HebiThread: run_mode, playback_waypoint and the three lists
    worker,           \* HebiThread.run: its position, its locals and what it sent
    gui,              \* the GUI thread: the handler it is in
    csv,              \* the arm's gripper, the file save_to_csv wrote and the
                      \* last operation of CsvSpec
    drive             \* the differential-drive loop of diff_drive.py

vars == <<state, last_input_time, goal, has_gripper, gripper_state, calls, ret,
          raised, op, now, pc, t, mio, arm_inputs, silent_since, interrupted,
          iter, sampler, device, homing, filter, planner, follower,
          hebi_thread, worker, gui, csv, drive>>

loop_vars == <<pc, t, mio, arm_inputs, silent_since, interrupted, iter>>

sampler_vars == <<sampler, device>>

arm_vars == <<state, last_input_time, goal, has_gripper, gripper_state, calls,
              ret, raised, op, now, homing>>

teach_vars == <<hebi_thread, worker, gui>>

\* the variables of the specifications below the sampler
other_vars == <<filter, planner, follower, teach_vars, csv, drive>>

\* the ArmControl object together with the arm it drives
Self ==
    [state |-> state, last_input_time |-> last_input_time, goal |-> goal,
     has_gripper |-> has_gripper, gripper_state |-> gripper_state,
     calls |-> calls, ret |-> ret, raised |-> raised, fault |-> "none"]

\* the same on a tick where the SDK behaves as fault says
SelfOn(fault) == [Self EXCEPT !.fault = fault]

\* arm.set_goal(g)
set_goal(self, g) ==
    [self EXCEPT !.goal = g, !.calls = Append(@, "arm.set_goal:" \o g)]

\* ArmControl.running
running(self) == self.state # EXIT

transition_to_no_self_check(self, t_now, new_state) ==
    LET s1 == IF new_state = HOMING THEN set_goal(self, HomeGoal) ELSE self
    IN  [s1 EXCEPT !.state = new_state]

\* ArmControl.transition_to
transition_to(self, t_now, new_state) ==
    IF new_state = self.state
    THEN self
    ELSE LET s1 == IF new_state = HOMING THEN set_goal(self, HomeGoal) ELSE self
         IN  [s1 EXCEPT !.state = new_state]

compute_arm_goal_ignore_active(self, arm_input) ==
    IF arm_input.mode = ModeNone
    THEN NoGoal
    ELSE IF self.fault = "ik" THEN IKError ELSE TeleopGoal

\* ArmControl.compute_arm_goal: None, a goal with one waypoint, or the
\* exception of arm.ik_target_xyz_so3, which both modes call and which
\* nothing in compute_arm_goal catches
compute_arm_goal(self, arm_input) ==
    IF arm_input.mode = ModeNone \/ ~arm_input.active
    THEN NoGoal
    ELSE IF self.fault = "ik" THEN IKError ELSE TeleopGoal

update_no_input_homes(self, t_now) ==
    IF self.last_input_time = Unset
    THEN [self EXCEPT !.raised = "AttributeError"]
    ELSE IF t_now - self.last_input_time > DisconnectTimeout
            /\ self.state # DISCONNECTED
         THEN [set_goal(transition_to(self, t_now, DISCONNECTED), HomeGoal)
                  EXCEPT !.ret = "True"]
         ELSE [self EXCEPT !.ret = "True"]

update_no_input_ge(self, t_now) ==
    IF self.last_input_time = Unset
    THEN [self EXCEPT !.raised = "AttributeError"]
    ELSE IF t_now - self.last_input_time >= DisconnectTimeout
            /\ self.state # DISCONNECTED
         THEN [transition_to(self, t_now, DISCONNECTED) EXCEPT !.ret = "True"]
         ELSE [self EXCEPT !.ret = "True"]

\* update, `if not arm_input:` branch
update_no_input(self, t_now) ==
    IF self.last_input_time = Unset
    THEN [self EXCEPT !.raised = "AttributeError"]
    ELSE IF t_now - self.last_input_time > DisconnectTimeout
            /\ self.state # DISCONNECTED
         THEN [transition_to(self, t_now, DISCONNECTED) EXCEPT !.ret = "True"]
         ELSE [self EXCEPT !.ret = "True"]

update_disconnected_rehome(self, t_now) ==
    [transition_to(self, t_now, HOMING) EXCEPT !.ret = "True"]

\* update, `if self.state is self.state.DISCONNECTED:` branch
update_disconnected(self, t_now) ==
    [transition_to([self EXCEPT !.last_input_time = t_now], t_now, TELEOP)
        EXCEPT !.ret = "True"]

update_homing_eager(self, t_now, at_goal) ==
    [transition_to(self, t_now, TELEOP) EXCEPT !.ret = "True"]

\* update, `elif self.state is self.state.HOMING:` branch
update_homing(self, t_now, at_goal) ==
    IF at_goal
    THEN [transition_to(self, t_now, TELEOP) EXCEPT !.ret = "True"]
    ELSE [self EXCEPT !.ret = "True"]

update_gripper_level(self, arm_input) ==
    IF self.has_gripper
    THEN IF arm_input.gripper_closed
         THEN [self EXCEPT !.gripper_state = 1,
                           !.calls = Append(@, "gripper.close")]
         ELSE [self EXCEPT !.gripper_state = 0,
                           !.calls = Append(@, "gripper.open")]
    ELSE self

\* update, the gripper block of the TELEOP branch
update_gripper(self, arm_input) ==
    IF self.has_gripper
    THEN LET gripper_closed == self.gripper_state = 1
         IN  IF arm_input.gripper_closed /\ ~gripper_closed
             THEN [self EXCEPT !.gripper_state = 1,
                               !.calls = Append(@, "gripper.close")]
             ELSE IF ~arm_input.gripper_closed /\ gripper_closed
             THEN [self EXCEPT !.gripper_state = 0,
                               !.calls = Append(@, "gripper.open")]
             ELSE self
    ELSE self

update_teleop_goal_mask_ik(self, arm_input) ==
    LET s1 == [self EXCEPT !.calls = Append(@, "compute_arm_goal")]
        arm_goal == compute_arm_goal(s1, arm_input)
    IN  IF arm_goal = IKError
        THEN set_goal(s1, TeleopGoal)
        ELSE IF arm_goal # NoGoal THEN set_goal(s1, arm_goal) ELSE s1

\* update, the goal computed and set on an unlocked TELEOP tick; an
\* exception of compute_arm_goal is not caught
update_teleop_goal(self, arm_input) ==
    LET s1 == [self EXCEPT !.calls = Append(@, "compute_arm_goal")]
        arm_goal == compute_arm_goal(s1, arm_input)
    IN  IF arm_goal = IKError
        THEN [s1 EXCEPT !.raised = IKError]
        ELSE IF arm_goal # NoGoal THEN set_goal(s1, arm_goal) ELSE s1

update_teleop_always_goal(self, t_now, arm_input) ==
    LET s1 == IF arm_input.locked
              THEN update_teleop_goal(transition_to(self, t_now, HOMING), arm_input)
              ELSE update_teleop_goal(self, arm_input)
    IN  IF s1.raised # "none"
        THEN s1
        ELSE [update_gripper(s1, arm_input) EXCEPT !.ret = "True"]

\* update, `elif self.state is self.state.TELEOP:` branch; an exception
\* leaves update before the gripper block and the return
update_teleop(self, t_now, arm_input) ==
    LET s1 == IF arm_input.locked
              THEN transition_to(self, t_now, HOMING)
              ELSE update_teleop_goal(self, arm_input)
    IN  IF s1.raised # "none"
        THEN s1
        ELSE [update_gripper(s1, arm_input) EXCEPT !.ret = "True"]

update_startup_skip_homing(self, t_now) ==
    [transition_to(self, t_now, TELEOP) EXCEPT !.ret = "True"]

\* update, `elif self.state is self.state.STARTUP:` branch
update_startup(self, t_now) ==
    [transition_to(self, t_now, HOMING) EXCEPT !.ret = "True"]

\* update, the dispatch on the state of a tick that carries an input
update_with_input(self, t_now, arm_input, at_goal) ==
    LET s1 == [self EXCEPT !.last_input_time = t_now]
    IN  CASE s1.state = DISCONNECTED -> update_disconnected(s1, t_now)
          [] s1.state = HOMING -> update_homing(s1, t_now, at_goal)
          [] s1.state = TELEOP -> update_teleop(s1, t_now, arm_input)
          [] s1.state = STARTUP -> update_startup(s1, t_now)
          [] OTHER -> s1

\* update, `self.arm.update()` and `self.arm.send()`, the first statements
update_arm(self) ==
    IF self.fault = "arm"
    THEN [self EXCEPT !.calls = <<"arm.update">>, !.ret = "None",
                      !.raised = "RuntimeError"]
    ELSE [self EXCEPT !.calls = <<"arm.update", "arm.send">>,
                      !.ret = "None", !.raised = "none"]

update_no_exit_check(self, t_now, arm_input, at_goal) ==
    LET s0 == update_arm(self)
    IN  IF s0.raised # "none"
        THEN s0
        ELSE IF ~arm_input.present
             THEN update_no_input(s0, t_now)
             ELSE update_with_input(s0, t_now, arm_input, at_goal)

update_exit_check_first(self, t_now, arm_input, at_goal) ==
    IF self.state = EXIT
    THEN [self EXCEPT !.calls = <<>>, !.ret = "False", !.raised = "none"]
    ELSE LET s0 == update_arm(self)
         IN  IF s0.raised # "none"
             THEN s0
             ELSE IF ~arm_input.present
                  THEN update_no_input(s0, t_now)
                  ELSE update_with_input(s0, t_now, arm_input, at_goal)

\* ArmControl.update; at_goal is what self.arm.at_goal reports on this tick
update(self, t_now, arm_input, at_goal) ==
    LET s0 == update_arm(self)
    IN  IF s0.raised # "none"
        THEN s0
        ELSE IF s0.state = EXIT
             THEN [s0 EXCEPT !.ret = "False"]
             ELSE IF ~arm_input.present
                  THEN update_no_input(s0, t_now)
                  ELSE update_with_input(s0, t_now, arm_input, at_goal)

send_nothing(self) ==
    [self EXCEPT !.calls = <<>>, !.ret = "None", !.raised = "none"]

\* ArmControl.send
send(self) ==
    [self EXCEPT !.calls = <<"arm.send">>, !.ret = "None", !.raised = "none"]

\* The history of the home goal after an operation that made the calls cs:
\* pending from the arm.set_goal of a home goal (transition_to, entry into
\* HOMING) until update reads self.arm.at_goal as true in HOMING.
HomingAfter(cs, operation) ==
    IF \E i \in 1..Len(cs) : cs[i] = "arm.set_goal:" \o HomeGoal
    THEN "pending"
    ELSE IF /\ operation.name = "update" /\ operation.fault # "arm"
            /\ operation.from = HOMING /\ operation.input.present
            /\ operation.at_goal /\ homing = "pending"
         THEN "reached"
         ELSE homing

\* the fields of the ArmControl object and of its arm after a call
Store(s) ==
    /\ state' = s.state
    /\ last_input_time' = s.last_input_time
    /\ goal' = s.goal
    /\ gripper_state' = s.gripper_state
    /\ calls' = s.calls
    /\ ret' = s.ret
    /\ raised' = s.raised
    /\ homing' = IF pc = "run" THEN HomingAfter(s.calls, op') ELSE homing
    /\ UNCHANGED has_gripper

OpRecord(name, t_now, arm_input, at_goal, target) ==
    [name |-> name, t_now |-> t_now, input |-> arm_input, at_goal |-> at_goal,
     target |-> target, from |-> state, last |-> last_input_time,
     goal |-> goal, gripper |-> gripper_state, fault |-> "none"]

\* ArmControl.__init__ and ArmMobileIOInputs(m, arm.size, False, False, False)
InitObjects ==
    /\ state = STARTUP
    /\ last_input_time = Unset
    /\ goal = NoGoal
    /\ has_gripper \in BOOLEAN
    /\ gripper_state = 0
    /\ calls = <<>>
    /\ ret = "None"
    /\ raised = "none"
    /\ op = [name |-> "init", t_now |-> 0, input |-> NoInput, at_goal |-> FALSE,
             target |-> STARTUP, from |-> STARTUP, last |-> Unset,
             goal |-> NoGoal, gripper |-> 0, fault |-> "none"]
    /\ now = 0
    /\ t = 0
    /\ mio = [locked |-> FALSE, active |-> FALSE, gripper_closed |-> FALSE]
    /\ arm_inputs = [present |-> TRUE, locked |-> FALSE, active |-> FALSE,
                     gripper_closed |-> FALSE, mode |-> ModeNone]
    /\ silent_since = Unset
    /\ interrupted = FALSE
    /\ iter = [samples |-> 0, advances |-> 0, flushes |-> 0]
    /\ sampler = [t |-> Unset, dt |-> DefaultDt, joint_direction |-> 1,
                  joint_velocity |-> [i \in 0..NumJoints - 1 |-> 0],
                  cartesian_velocity |-> [k \in 0..2 |-> 0]]
    /\ device = [ok |-> TRUE, buttons |-> [b \in DeviceButtons |-> FALSE],
                 axes |-> [a \in DeviceAxes |-> 0]]
    /\ homing = "none"

\* ArmMobileIOInputs.__init__: the smoothed velocities and the displacements
\* are zeros, mode is None; samples counts the calls of parse_mobile_feedback
InitFilter ==
    filter = [prev_cartesian_velocity |-> [k \in 0..2 |-> 0],
              prev_joint_velocity |-> [i \in 0..NumJoints - 1 |-> 0],
              cartesian_displacement |-> [k \in 0..2 |-> 0],
              joint_displacement |-> [i \in 0..NumJoints - 1 |-> 0],
              mode |-> ModeNone, samples |-> 0]

\* the planner before any call of compute_arm_goal, the arm commanding q
NoPlan(q) ==
    [cur_position |-> q, called |-> FALSE, mode |-> ModeNone, active |-> FALSE,
     cartesian_displacement |-> [k \in 0..2 |-> 0],
     joint_displacement |-> [i \in 0..NumJoints - 1 |-> 0],
     requested |-> [k \in 0..2 |-> 0],
     ik_called |-> FALSE, ik_target |-> [k \in 0..2 |-> 0],
     ik_rot |-> [i \in 3..NumJoints - 1 |-> 0],
     has_goal |-> FALSE, waypoint |-> q, raised |-> "none"]

InitPlanner == planner = NoPlan([i \in 0..NumJoints - 1 |-> 0])

\* the waiting state of the leader-follower machine
WAITING == "WAITING"

\* LeaderFollowerControl(input_arm, output_arm, output_joints_home,
\* allowed_diff): waiting, the follower at its home position, the leader at
\* its zeros.  Angles are in degrees; the home position is taken as the zero
\* of every follower joint.
InitFollower ==
    follower = [state |-> WAITING, from |-> WAITING, last |-> "init",
                leader |-> [j \in 0..NumJoints - 1 |-> 0],
                position |-> [j \in 0..NumJoints - 1 |-> 0],
                seen |-> [j \in 0..NumJoints - 1 |-> 0],
                report |-> {}]

\* HebiThread.run_mode
TRAINING == "training"
PLAYBACK == "playback"

\* no goal issued by the worker since playback was started
NoIssue ==
    [index |-> -1, waypoint |-> 0, duration |-> 0, grip |-> -1, prev |-> -1,
     at_goal |-> FALSE]

\* no file chosen
NoFile == [dof |-> 0, gripper |-> "", rows |-> <<>>]

\* HebiThread.__init__, which starts the worker thread, and the idle GUI.
\* goal and gripper are the goal and the gripper state of self.arm.  Kept
\* as history: worker.issued, the last goal the worker issued since
\* playback_button set run_mode to "playback".
InitTeach ==
    /\ hebi_thread = [abort_flag |-> FALSE, waypoints |-> <<>>,
                      grip_states |-> <<>>, durations |-> <<>>,
                      run_mode |-> TRAINING, playback_waypoint |-> 0,
                      goal |-> NoGoal, gripper |-> 0]
    /\ worker = [pc |-> "loop", at_goal |-> FALSE, index |-> 0,
                 next_waypoint |-> 0, next_duration |-> 0, loaded |-> 0,
                 issued |-> NoIssue, error |-> "none"]
    /\ gui = [pc |-> "idle", file |-> NoFile, row |-> 0]

\* no operation of CsvSpec yet
NoCsvOp ==
    [name |-> "init", ret |-> "None", raised |-> "none", file |-> NoFile,
     before |-> <<>>]

\* the arm of ex_teach_repeat_gui.py, made with hasGripper = True; nothing
\* saved yet
InitCsv ==
    csv = [has_gripper |-> TRUE, disk |-> NoFile, saved |-> <<>>, op |-> NoCsvOp]

\* diff_drive.py before its loop: Left, Right and TurnScale are 0 and
\* group_command holds no velocity
InitDrive ==
    drive = [pc |-> "feedback", lost |-> FALSE, x |-> 0, y |-> 0, abort |-> 0,
             Left |-> 0, Right |-> 0, TurnScale |-> 0, velocity |-> <<>>,
             before |-> <<>>, sent |-> <<>>]

\* What the arm answers on a tick is drawn only where update asks for it:
\* arm.at_goal is read on a HOMING tick with an input, and
\* arm.ik_target_xyz_so3 is called on an unlocked TELEOP tick whose input is
\* active and has a mode; elsewhere the answer changes nothing.
Asked(st, arm_input, at_goal, fault) ==
    /\ at_goal => st = HOMING /\ arm_input.present /\ fault # "arm"
    /\ fault = "ik" =>
          /\ st = TELEOP
          /\ arm_input.present /\ ~arm_input.locked
          /\ arm_input.active /\ arm_input.mode # ModeNone

\* ------------------------------------------------------------------------
\* The ArmControl object under any caller.
Init ==
    /\ InitObjects
    /\ InitFilter /\ InitPlanner /\ InitFollower /\ InitTeach /\ InitCsv /\ InitDrive
    /\ pc = "api"

\* a call update(t_now, arm_input) by any driver
Update(t_now, arm_input, at_goal, fault) ==
    /\ t_now >= now
    /\ Asked(state, arm_input, at_goal, fault)
    /\ now' = t_now
    /\ op' = [OpRecord("update", t_now, arm_input, at_goal, state)
                EXCEPT !.fault = fault]
    /\ Store(update(SelfOn(fault), t_now, arm_input, at_goal))
    /\ UNCHANGED <<loop_vars, sampler_vars, other_vars>>

\* a call transition_to(t_now, new_state) by any driver
TransitionTo(new_state) ==
    /\ op' = OpRecord("transition_to", now, NoInput, FALSE, new_state)
    /\ Store([transition_to([Self EXCEPT !.calls = <<>>], now, new_state)
                 EXCEPT !.ret = "None", !.raised = "none"])
    /\ UNCHANGED <<now, loop_vars, sampler_vars, other_vars>>

\* a call send() by any driver
Send ==
    /\ op' = OpRecord("send", now, NoInput, FALSE, state)
    /\ Store(send(Self))
    /\ UNCHANGED <<now, loop_vars, sampler_vars, other_vars>>

Next ==
    \/ \E t_now \in Time, arm_input \in ArmInputs \cup {NoInput},
          at_goal \in BOOLEAN, fault \in Faults :
          Update(t_now, arm_input, at_goal, fault)
    \/ \E new_state \in ArmControlState : TransitionTo(new_state)
    \/ Send

Spec == Init /\ [][Next]_vars

\* The ArmControl object driven as the control loops drive it, by update and
\* send only, with or without an input sample on each tick.
RunInit ==
    /\ InitObjects
    /\ InitFilter /\ InitPlanner /\ InitFollower /\ InitTeach /\ InitCsv /\ InitDrive
    /\ pc = "run"

RunNext ==
    \/ \E t_now \in Time, arm_input \in ArmInputs \cup {NoInput},
          at_goal \in BOOLEAN, fault \in Faults :
          Update(t_now, arm_input, at_goal, fault)
    \/ Send

RunSpec == RunInit /\ [][RunNext]_vars

\* ------------------------------------------------------------------------
\* The main control loop of mobile_io_teleop_control.py:
\*     while arm_control.running:
\*         t = time()
\*         arm_inputs.parse_mobile_feedback(t)
\*         arm_control.update(t, arm_inputs)
\*         arm_control.send()
Buttons == [locked : BOOLEAN, active : BOOLEAN, gripper_closed : BOOLEAN]

\* self.mio.update(0.0): on success the device state is replaced by the new
\* feedback, on failure the MobileIO keeps the last one it received
mio_update(m, ok, buttons) == IF ok THEN buttons ELSE m

\* ArmMobileIOInputs.parse_mobile_feedback, the fields ArmControl reads:
\* locked, active and gripper_closed are button states 6, 5 and 8 of the
\* device; mode is the outcome of the two velocity-norm comparisons.  The
\* object itself is what the loop hands to update, never None.
parse_mobile_feedback(inputs, m, mode) ==
    [inputs EXCEPT !.mode = mode, !.locked = m.locked, !.active = m.active,
                   !.gripper_closed = m.gripper_closed]

LoopInit ==
    /\ InitObjects
    /\ InitFilter /\ InitPlanner /\ InitFollower /\ InitTeach /\ InitCsv /\ InitDrive
    /\ pc = "cond"

\* the number of arm.send() among the calls of an operation
Flushes(cs) == Len(SelectSeq(cs, LAMBDA c : c = "arm.send"))

\* while arm_control.running:
LoopCheck ==
    /\ pc = "cond"
    /\ pc' = IF running(Self) THEN "time" ELSE "done"
    /\ iter' = [samples |-> 0, advances |-> 0, flushes |-> 0]
    /\ UNCHANGED <<state, last_input_time, goal, has_gripper, gripper_state,
                   calls, ret, raised, op, homing, now, t, mio, arm_inputs,
                   silent_since, interrupted, sampler_vars, other_vars>>

\* t = time()
LoopTime(t_now) ==
    /\ pc = "time"
    /\ t_now >= now
    /\ now' = t_now
    /\ t' = t_now
    /\ pc' = "parse"
    /\ UNCHANGED <<state, last_input_time, goal, has_gripper, gripper_state,
                   calls, ret, raised, op, homing, mio, arm_inputs, silent_since,
                   interrupted, iter, sampler_vars, other_vars>>

\* arm_inputs.parse_mobile_feedback(t)
LoopParse(ok, buttons, mode) ==
    /\ pc = "parse"
    /\ mio' = mio_update(mio, ok, buttons)
    /\ arm_inputs' = parse_mobile_feedback(arm_inputs, mio', mode)
    /\ silent_since' = IF ok \/ state # TELEOP THEN Unset
                       ELSE IF silent_since = Unset THEN t ELSE silent_since
    /\ iter' = [iter EXCEPT !.samples = @ + 1]
    /\ pc' = "update"
    /\ UNCHANGED <<state, last_input_time, goal, has_gripper, gripper_state,
                   calls, ret, raised, op, homing, now, t, interrupted, sampler_vars, other_vars>>

\* arm_control.update(t, arm_inputs); the loop has no try/except, so an
\* exception of update propagates out of the program
LoopUpdate(at_goal, fault) ==
    /\ pc = "update"
    /\ Asked(state, arm_inputs, at_goal, fault)
    /\ op' = [OpRecord("update", t, arm_inputs, at_goal, state)
                EXCEPT !.fault = fault]
    /\ Store(update(SelfOn(fault), t, arm_inputs, at_goal))
    /\ iter' = [iter EXCEPT !.advances = @ + 1, !.flushes = @ + Flushes(calls')]
    /\ pc' = IF raised' # "none" THEN "crashed" ELSE "send"
    /\ UNCHANGED <<now, t, mio, arm_inputs, silent_since, interrupted,
                   sampler_vars, other_vars>>

\* arm_control.send()
LoopSend ==
    /\ pc = "send"
    /\ op' = OpRecord("send", t, NoInput, FALSE, state)
    /\ Store(send(Self))
    /\ iter' = [iter EXCEPT !.flushes = @ + Flushes(calls')]
    /\ pc' = "cond"
    /\ UNCHANGED <<now, t, mio, arm_inputs, silent_since, interrupted,
                   sampler_vars, other_vars>>

\* SIGINT while the loop runs: KeyboardInterrupt is raised at the current
\* statement; the loop has no try/except, so it propagates out of the program
Interrupt ==
    /\ pc \in {"cond", "time", "parse", "update", "send"}
    /\ interrupted' = TRUE
    /\ pc' = "killed"
    /\ UNCHANGED <<state, last_input_time, goal, has_gripper, gripper_state,
                   calls, ret, raised, op, homing, now, t, mio, arm_inputs,
                   silent_since, iter, sampler_vars, other_vars>>

LoopNext ==
    \/ LoopCheck
    \/ \E t_now \in Time : LoopTime(t_now)
    \/ \E ok \in BOOLEAN, buttons \in Buttons, mode \in TrajType \cup {ModeNone} :
          LoopParse(ok, buttons, mode)
    \/ \E at_goal \in BOOLEAN, fault \in Faults : LoopUpdate(at_goal, fault)
    \/ LoopSend
    \/ Interrupt

LoopSpec == LoopInit /\ [][LoopNext]_vars

\* ------------------------------------------------------------------------
\* The input sampler, ArmMobileIOInputs.parse_mobile_feedback up to the raw
\* velocities.  joint_velocity is in units of joint_velocity_max and
\* cartesian_velocity in units of cartesian_velocity_max.

\* int(b) of a Python bool
int(b) == IF b THEN 1 ELSE 0

\* ArmMobileIOInputs.clear_input
clear_input(self) ==
    [self EXCEPT !.joint_velocity = [i \in 0..NumJoints - 1 |-> 0],
                 !.cartesian_velocity = [k \in 0..2 |-> 0]]

\* parse_mobile_feedback, `if self.t is not None: self.dt = (time - self.t)`
\* and `self.t = time`
sample_dt(self, time) ==
    [self EXCEPT !.dt = IF self.t # Unset THEN time - self.t ELSE @,
                 !.t = time]

\* parse_mobile_feedback, the velocities read from the button and axis
\* states the MobileIO holds
read_velocities(self, dev) ==
    LET joint_direction == -(int(dev.buttons[7]) * 2 - 1)
    IN  [self EXCEPT
            !.joint_direction = joint_direction,
            !.joint_velocity =
                [i \in 0..NumJoints - 1 |->
                    IF i >= 2 THEN int(dev.buttons[i - 1]) * joint_direction
                    ELSE self.joint_velocity[i]],
            !.cartesian_velocity =
                [k \in 0..2 |->
                    CASE k = 0 -> dev.axes[8]
                      [] k = 1 -> -dev.axes[7]
                      [] k = 2 -> dev.axes[5]]]

\* parse_mobile_feedback from its first statement to the raw velocities;
\* dev is the MobileIO after self.mio.update(0.0)
sample_velocities(self, time, dev) ==
    LET s1 == sample_dt(self, time)
        s2 == IF ~dev.ok THEN clear_input(s1) ELSE s1
    IN  read_velocities(s2, dev)

\* self.mio.update(0.0) on the device: a new feedback replaces the state the
\* MobileIO holds, a failed read leaves it as it was
device_update(dev, ok, fb) ==
    IF ok THEN [ok |-> TRUE, buttons |-> fb.buttons, axes |-> fb.axes]
    ELSE [dev EXCEPT !.ok = FALSE]

SamplerInit ==
    /\ InitObjects
    /\ InitFilter /\ InitPlanner /\ InitFollower /\ InitTeach /\ InitCsv /\ InitDrive
    /\ pc = "sampler"

\* a call arm_inputs.parse_mobile_feedback(time)
ParseFeedback(time, ok, fb) ==
    /\ device' = device_update(device, ok, fb)
    /\ sampler' = sample_velocities(sampler, time, device')
    /\ UNCHANGED <<state, last_input_time, goal, has_gripper, gripper_state,
                   calls, ret, raised, op, now, loop_vars, homing,
                   other_vars>>

SamplerNext ==
    \E time \in Stamps, ok \in BOOLEAN, fb \in Feedbacks : ParseFeedback(time, ok, fb)

SamplerSpec == SamplerInit /\ [][SamplerNext]_vars

\* ------------------------------------------------------------------------
\* The whole of ArmMobileIOInputs.parse_mobile_feedback: the raw velocities
\* as above, then the smoothing and the mode arbitration.  The velocities of
\* the filter are fixed-point numbers in units of 1e-4 (m/s, rad/s), rounded
\* towards zero; a displacement is a velocity times dt, dt in units of 0.01 s.

\* the number of calls of parse_mobile_feedback a run of the filter takes
MaxSamples == 2

\* self.cartesian_velocity_max = cartesian_vel_max * (6), for an arm
\* configured with cartesian_vel_max = 0.0015: 0.009 m/s
CartesianVelocityMax == 90
\* self.joint_velocity_max = joint_vel_max * (np.pi/0.0425), joint_vel_max
\* = 1.0: 73.9198 rad/s
JointVelocityMax == 739198
\* self.alpha_cartesian = 0.1 and self.alpha_joint = 0.1, in tenths
AlphaCartesian == 1
AlphaJoint == 1
\* `np.linalg.norm(self.prev_cartesian_velocity) > 1e-3`
CartesianThreshold == 10
\* `np.linalg.norm(self.prev_joint_velocity) > 1e-2`
JointThreshold == 100

\* the feedbacks the filter is run on: x and z axes, the direction button,
\* and the joint buttons held or released together
FilterFeedbacks ==
    {fb \in Feedbacks :
        /\ fb.axes[7] = 0
        /\ fb.axes[5] >= 0
        /\ \A b \in JointButtons : fb.buttons[b] = fb.buttons[1]}

\* a fixed-point quotient, rounded towards zero
fix(x, d) == IF x >= 0 THEN x \div d ELSE -((-x) \div d)

abs(x) == IF x >= 0 THEN x ELSE -x

RECURSIVE sum_squares(_, _)
\* the sum of the squares of v[0..n-1]
sum_squares(v, n) == IF n = 0 THEN 0 ELSE v[n - 1] * v[n - 1] + sum_squares(v, n - 1)

\* np.linalg.norm(v) > threshold for a vector v[0..n-1]; a component above
\* the threshold decides it before any square is taken
norm_exceeds(v, n, threshold) ==
    \/ \E i \in 0..n - 1 : abs(v[i]) > threshold
    \/ sum_squares(v, n) > threshold * threshold

\* parse_mobile_feedback, the two smoothing assignments:
\* prev = velocity * alpha + prev * (1.0 - alpha); s is the sampler, whose
\* raw velocities are in units of the maximal velocities
smooth(self, s) ==
    [self EXCEPT
        !.prev_cartesian_velocity =
            [k \in 0..2 |->
                fix(s.cartesian_velocity[k] * CartesianVelocityMax * AlphaCartesian
                      + self.prev_cartesian_velocity[k] * (10 - AlphaCartesian), 10)],
        !.prev_joint_velocity =
            [i \in 0..NumJoints - 1 |->
                fix(s.joint_velocity[i] * JointVelocityMax * AlphaJoint
                      + self.prev_joint_velocity[i] * (10 - AlphaJoint), 10)]]

arbitrate_joint_first(self, dt) ==
    IF norm_exceeds(self.prev_joint_velocity, NumJoints, JointThreshold)
    THEN [self EXCEPT
            !.joint_displacement =
                [i \in 0..NumJoints - 1 |-> self.prev_joint_velocity[i] * dt],
            !.mode = JOINT]
    ELSE IF norm_exceeds(self.prev_cartesian_velocity, 3, CartesianThreshold)
    THEN [self EXCEPT
            !.cartesian_displacement =
                [k \in 0..2 |-> self.prev_cartesian_velocity[k] * dt],
            !.mode = CARTESIAN]
    ELSE [self EXCEPT
            !.joint_displacement = [i \in 0..NumJoints - 1 |-> 0],
            !.cartesian_displacement = [k \in 0..2 |-> 0],
            !.mode = ModeNone]

\* parse_mobile_feedback, the if / elif / else on the two norms: the branch
\* taken writes its own displacement and leaves the other one as it was
arbitrate(self, dt) ==
    IF norm_exceeds(self.prev_cartesian_velocity, 3, CartesianThreshold)
    THEN [self EXCEPT
            !.cartesian_displacement =
                [k \in 0..2 |-> self.prev_cartesian_velocity[k] * dt],
            !.mode = CARTESIAN]
    ELSE IF norm_exceeds(self.prev_joint_velocity, NumJoints, JointThreshold)
    THEN [self EXCEPT
            !.joint_displacement =
                [i \in 0..NumJoints - 1 |-> self.prev_joint_velocity[i] * dt],
            !.mode = JOINT]
    ELSE [self EXCEPT
            !.joint_displacement = [i \in 0..NumJoints - 1 |-> 0],
            !.cartesian_displacement = [k \in 0..2 |-> 0],
            !.mode = ModeNone]

FilterInit ==
    /\ InitObjects
    /\ InitFilter /\ InitPlanner /\ InitFollower /\ InitTeach /\ InitCsv /\ InitDrive
    /\ pc = "filter"

\* a call arm_inputs.parse_mobile_feedback(time), from its first statement
\* to the mode; locked, active and gripper_closed, which it reads last, are
\* button states and part of the loop's arm_inputs above
ParseMobileFeedback(time, ok, fb) ==
    /\ filter.samples < MaxSamples
    /\ device' = device_update(device, ok, fb)
    /\ sampler' = sample_velocities(sampler, time, device')
    /\ filter' = [arbitrate(smooth(filter, sampler'), sampler'.dt)
                     EXCEPT !.samples = @ + 1]
    /\ UNCHANGED <<arm_vars, loop_vars, planner, follower, teach_vars, csv, drive>>

FilterNext ==
    \E time \in Stamps, ok \in BOOLEAN, fb \in FilterFeedbacks :
        ParseMobileFeedback(time, ok, fb)

FilterSpec == FilterInit /\ [][FilterNext]_vars

\* ------------------------------------------------------------------------
\* ArmControl.compute_arm_goal in full: the target pose, the workspace
\* limits and the inverse kinematics.  Lengths are in units of 0.1 m.  The
\* model arm is a gantry: joints 0, 1 and 2 carry the end effector along x,
\* y and z, the joints from 3 on turn it.

\* the defaults of max_abs_x, max_abs_y, min_z and max_z: 0.5, 0.5, 0.0, 0.5
MaxAbsX == 5
MaxAbsY == 5
MinZ == 0
MaxZ == 5

\* joint positions the arm may command: at, inside and beyond the limits
PositionLevels == {-(MaxAbsX + 1), -MaxAbsX, -1, 0, MaxAbsX, MaxAbsX + 1}
Positions ==
    {[i \in 0..NumJoints - 1 |-> IF i < 3 THEN xyz[i] ELSE rot[i]] :
        xyz \in [0..2 -> PositionLevels], rot \in [3..NumJoints - 1 -> {0, 1}]}

\* what compute_arm_goal reads of an ArmMobileIOInputs object; a displacement
\* is drawn for the mode that reads it, and joint_displacement is zero on the
\* joints 0 and 1, which parse_mobile_feedback never drives
PlannerInputs ==
    LET no_cartesian == [k \in 0..2 |-> 0]
        no_joint == [i \in 0..NumJoints - 1 |-> 0]
    IN  {[mode |-> m, active |-> FALSE, cartesian_displacement |-> no_cartesian,
          joint_displacement |-> no_joint] : m \in TrajType \cup {ModeNone}}
        \cup
        {[mode |-> ModeNone, active |-> TRUE,
          cartesian_displacement |-> no_cartesian, joint_displacement |-> no_joint]}
        \cup
        {[mode |-> CARTESIAN, active |-> TRUE, cartesian_displacement |-> d,
          joint_displacement |-> no_joint] : d \in [0..2 -> {-1, 0, 1}]}
        \cup
        {[mode |-> JOINT, active |-> TRUE, cartesian_displacement |-> no_cartesian,
          joint_displacement |-> [i \in 0..NumJoints - 1 |-> IF i < 2 THEN 0 ELSE d[i]]] :
            d \in [2..NumJoints - 1 -> {-1, 0, 1}]}

clip_upper_only(x, lo, hi) == IF x > hi THEN hi ELSE x

\* np.clip(x, lo, hi)
clip(x, lo, hi) == IF x < lo THEN lo ELSE IF x > hi THEN hi ELSE x

\* self.arm.FK(q, xyz_out, orientation_out) of the model arm
FK(q) ==
    [xyz |-> [k \in 0..2 |-> q[k]], rot |-> [i \in 3..NumJoints - 1 |-> q[i]]]

\* self.arm.ik_target_xyz_so3(seed, xyz, rot) of the model arm: the joint
\* positions whose FK is xyz and rot
ik_target_xyz_so3(seed, xyz, rot) ==
    [i \in 0..NumJoints - 1 |-> IF i < 3 THEN xyz[i] ELSE rot[i]]

\* compute_arm_goal, the branches on the mode: the pose asked for
arm_pose_target(cur_position, arm_input) ==
    IF arm_input.mode = CARTESIAN
    THEN LET arm == FK(cur_position)
         IN  [xyz |-> [k \in 0..2 |-> arm.xyz[k] + arm_input.cartesian_displacement[k]],
              rot |-> arm.rot]
    ELSE LET target_position ==
                 [i \in 0..NumJoints - 1 |->
                     cur_position[i] + arm_input.joint_displacement[i]]
         IN  FK(target_position)

\* compute_arm_goal, `# Apply limits`: the three np.clip
apply_limits(xyz) ==
    [k \in 0..2 |->
        CASE k = 0 -> clip(xyz[0], -MaxAbsX, MaxAbsX)
          [] k = 1 -> clip(xyz[1], -MaxAbsY, MaxAbsY)
          [] k = 2 -> clip(xyz[2], MinZ, MaxZ)]

limited_target_cartesian_only(cur_position, arm_input) ==
    LET pose == arm_pose_target(cur_position, arm_input)
    IN  IF arm_input.mode = CARTESIAN
        THEN [pose EXCEPT !.xyz = apply_limits(pose.xyz)]
        ELSE pose

\* compute_arm_goal, the pose handed to the inverse kinematics: the limits
\* follow the if / elif and apply to the target of either mode
limited_target(cur_position, arm_input) ==
    LET pose == arm_pose_target(cur_position, arm_input)
    IN  [pose EXCEPT !.xyz = apply_limits(pose.xyz)]

\* compute_arm_goal on the arm commanding self.cur_position; ik_ok is whether
\* ik_target_xyz_so3 returns or raises
plan_arm_goal(self, arm_input, ik_ok) ==
    LET s1 == [NoPlan(self.cur_position) EXCEPT
                  !.called = TRUE, !.mode = arm_input.mode,
                  !.active = arm_input.active,
                  !.cartesian_displacement = arm_input.cartesian_displacement,
                  !.joint_displacement = arm_input.joint_displacement]
    IN  IF arm_input.mode = ModeNone \/ ~arm_input.active
        THEN s1
        ELSE LET pose == arm_pose_target(self.cur_position, arm_input)
                 target == limited_target(self.cur_position, arm_input)
                 s2 == [s1 EXCEPT !.requested = pose.xyz, !.ik_called = TRUE,
                                  !.ik_target = target.xyz, !.ik_rot = target.rot]
             IN  IF ik_ok
                 THEN [s2 EXCEPT
                         !.has_goal = TRUE,
                         !.waypoint = ik_target_xyz_so3(self.cur_position,
                                                        target.xyz, target.rot)]
                 ELSE [s2 EXCEPT !.raised = IKError]

PlannerInit ==
    /\ InitObjects
    /\ InitFilter /\ InitFollower /\ InitTeach /\ InitCsv /\ InitDrive
    /\ \E q \in Positions : planner = NoPlan(q)
    /\ pc = "planner"

\* the arm follows the goal: the position self.arm.last_feedback commands
\* becomes the waypoint
ArmFollows ==
    /\ planner.has_goal
    /\ planner' = NoPlan(planner.waypoint)
    /\ UNCHANGED <<arm_vars, loop_vars, sampler_vars, filter, follower, teach_vars, csv, drive>>

\* a call compute_arm_goal(arm_input)
ComputeArmGoal(arm_input, ik_ok) ==
    /\ ~planner.called
    /\ ~ik_ok => arm_input.mode # ModeNone /\ arm_input.active
    /\ planner' = plan_arm_goal(planner, arm_input, ik_ok)
    /\ UNCHANGED <<arm_vars, loop_vars, sampler_vars, filter, follower, teach_vars, csv, drive>>

PlannerNext ==
    \/ ArmFollows
    \/ \E arm_input \in PlannerInputs, ik_ok \in BOOLEAN :
          ComputeArmGoal(arm_input, ik_ok)

PlannerSpec == PlannerInit /\ [][PlannerNext]_vars

\* ------------------------------------------------------------------------
\* The leader-follower machine of the MAPS demo.  LeaderFollowerControl is
\* imported from MAPS_input_device_example; what it does on a tick is taken
\* from the description of the variant: before Teleop every follower joint
\* must be within its tolerance of the mapped leader position, otherwise the
\* machine waits and reports the joints that are not.

\* allowed_diff = np.array([30.0, 20.0, 30.0, 20.0, 45.0, 45.0, 360.0])
AllowedDiff == <<30, 20, 30, 20, 45, 45, 360>>
\* angle_offsets = [0.0, pi/2, -pi, -pi/2, -pi/2, -pi/2, 0.0], in degrees
AngleOffsets == <<0, 90, -180, -90, -90, -90, 0>>

\* the angles a mapped leader joint is moved to
AngleLevels == {0, 21, 30, 31}

\* ContinuousAngleMaps: the leader position mapped into follower angles
mapped(leader) == [j \in 0..NumJoints - 1 |-> leader[j] + AngleOffsets[j + 1]]

out_of_tolerance_uniform(position, target) ==
    {j \in 0..NumJoints - 1 : abs(position[j] - target[j]) > AllowedDiff[1]}

\* the follower joints further from the mapped leader position than their
\* allowed difference
out_of_tolerance(position, target) ==
    {j \in 0..NumJoints - 1 : abs(position[j] - target[j]) > AllowedDiff[j + 1]}

\* LeaderFollowerControl.update: waiting, it enters Teleop once no joint is
\* out of tolerance and otherwise reports the joints that are; in Teleop the
\* follower is commanded to the mapped leader position
leader_follower_update(self) ==
    LET target == mapped(self.leader)
        s1 == [self EXCEPT !.from = self.state, !.last = "update", !.seen = target]
    IN  CASE self.state = WAITING ->
               LET out == out_of_tolerance(self.position, target)
               IN  IF out = {}
                   THEN [s1 EXCEPT !.state = TELEOP, !.report = {}]
                   ELSE [s1 EXCEPT !.report = out]
          [] self.state = TELEOP -> [s1 EXCEPT !.position = target]
          [] OTHER -> s1

FollowerInit ==
    /\ InitObjects
    /\ InitFilter /\ InitPlanner /\ InitFollower /\ InitTeach /\ InitCsv /\ InitDrive
    /\ pc = "follower"

\* the operator moves joint j of the MAPS leader so that it maps to angle a
LeaderMoves(j, a) ==
    /\ follower.state # EXIT
    /\ follower' = [follower EXCEPT !.leader[j] = a - AngleOffsets[j + 1],
                                    !.last = "leader"]
    /\ UNCHANGED <<arm_vars, loop_vars, sampler_vars, filter, planner, teach_vars, csv, drive>>

\* leader_follower_control.update(t, arm_inputs) in the loop
LeaderFollowerUpdate ==
    /\ follower.state # EXIT
    /\ follower' = leader_follower_update(follower)
    /\ UNCHANGED <<arm_vars, loop_vars, sampler_vars, filter, planner, teach_vars, csv, drive>>

\* except KeyboardInterrupt:
\*     leader_follower_control.transition_to(LeaderFollowerControlState.EXIT)
LeaderFollowerInterrupt ==
    /\ follower.state # EXIT
    /\ follower' = [follower EXCEPT !.from = follower.state, !.state = EXIT,
                                    !.last = "transition_to"]
    /\ UNCHANGED <<arm_vars, loop_vars, sampler_vars, filter, planner, teach_vars, csv, drive>>

FollowerNext ==
    \/ \E j \in 0..NumJoints - 1, a \in AngleLevels : LeaderMoves(j, a)
    \/ LeaderFollowerUpdate
    \/ LeaderFollowerInterrupt

FollowerSpec == FollowerInit /\ [][FollowerNext]_vars

\* ------------------------------------------------------------------------
\* Properties.  `op` names the last operation, its arguments and the fields
\* it found (from, last, goal, gripper); the other variables are its result.

\* the goals handed to arm.set_goal by the last operation, in order
GoalCalls == SelectSeq(calls, LAMBDA c : c \in {"arm.set_goal:home", "arm.set_goal:teleop"})
\* the gripper commands issued by the last operation, in order
GripperCalls == SelectSeq(calls, LAMBDA c : c \in {"gripper.close", "gripper.open"})

\* the last operation was a call of update
IsUpdateCall == op.name = "update"
\* ... during which arm.update() returned
IsUpdate == IsUpdateCall /\ op.fault # "arm"
IsTransitionTo == op.name = "transition_to"

TableTransitions ==
    {<<STARTUP, HOMING>>, <<HOMING, TELEOP>>, <<TELEOP, DISCONNECTED>>,
     <<DISCONNECTED, TELEOP>>, <<TELEOP, HOMING>>}
        \cup {<<s, EXIT>> : s \in ArmControlState}

UpdateTransitions ==
    {<<STARTUP, HOMING>>, <<HOMING, TELEOP>>, <<DISCONNECTED, TELEOP>>,
     <<TELEOP, HOMING>>}
        \cup {<<s, DISCONNECTED>> : s \in {STARTUP, HOMING, TELEOP}}

C3_StartupTickHomes ==
    IsUpdate /\ op.from = STARTUP =>
        /\ state = HOMING
        /\ GoalCalls = <<"arm.set_goal:home">>
        /\ goal = HomeGoal
        /\ raised = "none"

\* C4: on a TELEOP tick without input sample (a last input time being
\* recorded), the machine moves to DISCONNECTED if and only if t_now minus
\* the last input time is strictly greater than the timeout, and otherwise
\* stays in TELEOP.
C4_DisconnectIffElapsed ==
    IsUpdate /\ op.from = TELEOP /\ ~op.input.present /\ op.last # Unset =>
        /\ state = DISCONNECTED <=> op.t_now - op.last > DisconnectTimeout
        /\ state \in {DISCONNECTED, TELEOP}
        /\ raised = "none"

C4_Witness ==
    /\ IsUpdate /\ op.from = TELEOP /\ ~op.input.present
    /\ op.last # Unset
    /\ op.t_now - op.last > DisconnectTimeout
    /\ state = DISCONNECTED

\* C5 (as claimed): in the main loop, once mio.update has returned false on
\* every iteration for more than the timeout while the machine was in TELEOP,
\* the update of that iteration leaves the machine in DISCONNECTED.
C5_LoopSurfacesDisconnect ==
    /\ pc = "send"
    /\ IsUpdate /\ op.from = TELEOP
    /\ silent_since # Unset
    /\ t - silent_since > DisconnectTimeout
    => state = DISCONNECTED

\* C6: a DISCONNECTED tick that carries an input sample moves the machine to
\* TELEOP within that tick and issues no goal and no gripper command.
C6_ResumeToTeleop ==
    IsUpdate /\ op.from = DISCONNECTED /\ op.input.present =>
        /\ state = TELEOP
        /\ ret = "True"
        /\ calls = <<"arm.update", "arm.send">>
        /\ goal = op.goal
        /\ gripper_state = op.gripper

C6_Witness ==
    /\ IsUpdate /\ op.from = DISCONNECTED /\ op.input.present
    /\ state = TELEOP
    /\ has_gripper /\ op.input.gripper_closed /\ op.gripper = 0

\* C7: a HOMING tick with an input sample moves the machine to TELEOP if and
\* only if the arm reports at_goal on that tick, otherwise the state stays
\* HOMING; no goal is issued either way.
C7_HomingUntilAtGoal ==
    IsUpdate /\ op.from = HOMING /\ op.input.present =>
        /\ state = TELEOP <=> op.at_goal
        /\ ~op.at_goal => state = HOMING
        /\ GoalCalls = <<>>
        /\ goal = op.goal

C7_Witness ==
    IsUpdate /\ op.from = HOMING /\ op.input.present /\ op.at_goal /\ state = TELEOP

\* C8 (as claimed): on a TELEOP tick whose input is locked the machine moves
\* to HOMING and the home goal is the only command of the tick: no
\* compute_arm_goal, no teleop goal, no gripper command.
C8_LockedTickOnlyHomes ==
    IsUpdate /\ op.from = TELEOP /\ op.input.present /\ op.input.locked =>
        /\ state = HOMING
        /\ calls = <<"arm.update", "arm.send", "arm.set_goal:home">>

\* C8 (amended): on a TELEOP tick whose input is locked the machine moves to
\* HOMING, the only goal set is the home goal and compute_arm_goal is not
\* invoked; the gripper block still runs on that tick: with a gripper
\* present, close is issued when gripper_closed is true and the gripper is
\* open, open when gripper_closed is false and the gripper is closed.
C8_LockedTickHomesAndGrips ==
    IsUpdate /\ op.from = TELEOP /\ op.input.present /\ op.input.locked =>
        /\ state = HOMING
        /\ GoalCalls = <<"arm.set_goal:home">>
        /\ goal = HomeGoal
        /\ \A i \in 1..Len(calls) : calls[i] # "compute_arm_goal"
        /\ GripperCalls =
              IF has_gripper /\ op.input.gripper_closed /\ op.gripper = 0
              THEN <<"gripper.close">>
              ELSE IF has_gripper /\ ~op.input.gripper_closed /\ op.gripper = 1
              THEN <<"gripper.open">>
              ELSE <<>>

C8_Witness ==
    /\ IsUpdate /\ op.from = TELEOP /\ op.input.present /\ op.input.locked
    /\ state = HOMING
    /\ GripperCalls = <<"gripper.close">>

\* C9 (as claimed): an exit request (transition_to with target EXIT) puts the
\* machine in EXIT and invokes cancel_goal on the arm.
C9_ExitCancelsGoal ==
    IsTransitionTo /\ op.target = EXIT /\ op.from # EXIT =>
        /\ state = EXIT
        /\ \E i \in 1..Len(calls) : calls[i] = "arm.cancel_goal"

\* C10 (as claimed): in the main loop an interrupt never ends the loop by
\* killing it: after an interrupt the loop reaches its condition check with
\* the machine in EXIT.
C10_InterruptDrivesToExit ==
    interrupted =>
        /\ pc # "killed"
        /\ pc \in {"cond", "done"} => state = EXIT

\* C11: a tick on which inverse kinematics fails raises NoIKSolution out of
\* compute_arm_goal and out of update: update returns nothing, set_goal is
\* not called, and the state (TELEOP) and the goal commanded before are
\* unchanged.
C11_IKFailurePropagates ==
    /\ IsUpdate /\ op.fault = "ik" => raised = IKError
    /\ raised = IKError =>
          /\ IsUpdate /\ op.from = TELEOP
          /\ state = TELEOP
          /\ ret = "None"
          /\ calls = <<"arm.update", "arm.send", "compute_arm_goal">>
          /\ goal = op.goal
          /\ gripper_state = op.gripper

C11_Witness ==
    raised = IKError /\ op.goal = TeleopGoal /\ goal = TeleopGoal /\ state = TELEOP

\* C12 (as claimed): in the main loop a NoIKSolution failure is not fatal:
\* the loop goes on to its next statement.
C12_IKFailureNotFatal == raised = IKError => pc = "send"

\* C13 (as claimed): when an exception of the motion layer ends the main
\* loop while a goal is pending, the driver has called cancel_goal.
C13_DriverCancelsOnException ==
    pc = "crashed" /\ raised = "RuntimeError" /\ goal # NoGoal =>
        \E i \in 1..Len(calls) : calls[i] = "arm.cancel_goal"

\* C14: every call of update, in every state, begins with arm.update and
\* then arm.send, each once, before any goal or gripper command; when
\* arm.update itself raises, nothing has been evaluated yet: the state, the
\* goal and the last input time are as before.
C14_RefreshAndFlushFirst ==
    IsUpdateCall =>
        /\ Len(calls) >= 1 /\ calls[1] = "arm.update"
        /\ op.fault # "arm" => Len(calls) >= 2 /\ calls[2] = "arm.send"
        /\ \A i \in 1..Len(calls) :
              i > 2 => calls[i] \notin {"arm.update", "arm.send"}
        /\ op.fault = "arm" =>
              /\ calls = <<"arm.update">>
              /\ state = op.from
              /\ goal = op.goal
              /\ last_input_time = op.last

C14_Witness ==
    /\ IsUpdateCall /\ op.from = DISCONNECTED /\ ~op.input.present
    /\ calls = <<"arm.update", "arm.send">>

\* C15 (as claimed): a completed iteration of the main loop has made one
\* input sample, one update and one arm.send.
C15_OneFlushPerIteration ==
    pc = "cond" /\ op.name = "send" =>
        iter = [samples |-> 1, advances |-> 1, flushes |-> 1]

\* C15 (amended): a completed iteration of the main loop has made one input
\* sample, one update and two arm.send: one inside update and one by the
\* loop's arm_control.send().
C15_TwoFlushesPerIteration ==
    pc = "cond" /\ op.name = "send" =>
        iter = [samples |-> 1, advances |-> 1, flushes |-> 2]

C15_Witness == pc = "cond" /\ op.name = "send" /\ iter.flushes = 2

\* the gripper commands of one operation
GripperEdge ==
    /\ Len(GripperCalls) <= 1
    /\ GripperCalls # <<>> =>
          IsUpdate /\ op.from = TELEOP /\ op.input.present /\ has_gripper
    /\ GripperCalls = <<"gripper.close">> =>
          op.input.gripper_closed /\ op.gripper = 0 /\ gripper_state = 1
    /\ GripperCalls = <<"gripper.open">> =>
          ~op.input.gripper_closed /\ op.gripper = 1 /\ gripper_state = 0
    /\ /\ IsUpdate /\ op.from = TELEOP /\ op.input.present
       /\ has_gripper /\ raised = "none"
       /\ op.input.gripper_closed # (op.gripper = 1)
       => GripperCalls # <<>>

\* a tick that issued a gripper command, followed by a tick with the same
\* gripper_closed
GripperHeld ==
    /\ IsUpdate /\ op.input.present /\ GripperCalls # <<>>
    /\ IsUpdate' /\ op'.input.present
    /\ op'.input.gripper_closed = op.input.gripper_closed

\* C16: close is issued only on a tick whose gripper_closed is true while the
\* gripper is open, open only on a tick whose gripper_closed is false while
\* the gripper is closed, at most one command per tick, and the tick after a
\* command issues none while gripper_closed is unchanged.
C16_GripperEdgeTriggered ==
    /\ []GripperEdge
    /\ [][GripperHeld => GripperCalls' = <<>>]_vars

C16_Witness ==
    /\ IsUpdate /\ op.from = TELEOP /\ op.input.present /\ has_gripper
    /\ op.input.gripper_closed /\ op.gripper = 1
    /\ GripperCalls = <<>>

\* the home goals set by the last operation
HomeGoalCalls == SelectSeq(calls, LAMBDA c : c = "arm.set_goal:home")

\* C17: the home goal is set only by an operation that changes the state to
\* HOMING, and once; an operation that leaves the state as it was (a TELEOP
\* tick staying in TELEOP, a HOMING tick staying in HOMING, transition_to
\* with the current state) sets no home goal.
C17_HomeGoalOnlyOnEntry ==
    /\ HomeGoalCalls # <<>> =>
          state = HOMING /\ op.from # HOMING /\ Len(HomeGoalCalls) = 1
    /\ op.from = state => HomeGoalCalls = <<>>

C17_Witness ==
    IsTransitionTo /\ op.target = HOMING /\ op.from = HOMING /\ calls = <<>>

\* C18 (as claimed): on a TELEOP tick whose input has no mode or is not
\* active, set_goal is not called and the goal commanded before is kept.
C18_NoGoalWhenIdle ==
    /\ IsUpdate /\ op.from = TELEOP /\ op.input.present
    /\ op.input.mode = ModeNone \/ ~op.input.active
    => GoalCalls = <<>> /\ goal = op.goal

\* C18 (amended): on a TELEOP tick whose input is not locked and has no mode
\* or is not active, compute_arm_goal is invoked and returns no goal,
\* set_goal is not called and the goal commanded before is kept; when the
\* input is locked the home goal is set instead.
C18_NoGoalWhenIdleUnlocked ==
    /\ IsUpdate /\ op.from = TELEOP /\ op.input.present
    /\ op.input.mode = ModeNone \/ ~op.input.active
    => IF op.input.locked
       THEN GoalCalls = <<"arm.set_goal:home">> /\ goal = HomeGoal
       ELSE /\ \E i \in 1..Len(calls) : calls[i] = "compute_arm_goal"
            /\ GoalCalls = <<>>
            /\ goal = op.goal
            /\ state = TELEOP
            /\ raised = "none"

C18_Witness ==
    /\ IsUpdate /\ op.from = TELEOP /\ op.input.present /\ ~op.input.locked
    /\ ~op.input.active /\ op.input.mode # ModeNone
    /\ op.goal = TeleopGoal /\ goal = TeleopGoal

\* C19 (as claimed): after a parse_mobile_feedback whose device read failed,
\* all raw joint and Cartesian velocities are zero.
C19_FailedReadZeroesVelocities ==
    ~device.ok =>
        /\ \A i \in 0..NumJoints - 1 : sampler.joint_velocity[i] = 0
        /\ \A k \in 0..2 : sampler.cartesian_velocity[k] = 0

\* C20 (as claimed): the integration interval dt is strictly positive after
\* every sample.
C20_DtPositive == sampler.dt > 0

\* C21: after every sample the mode is the fixed-priority function of the
\* two smoothed norms: CARTESIAN whenever the Cartesian norm exceeds 1e-3,
\* whatever the joint norm; JOINT only when the Cartesian norm is at most
\* 1e-3 and the joint norm exceeds 1e-2; otherwise None, and then both
\* displacements are zero vectors.
C21_ModeArbitration ==
    filter.samples > 0 =>
        LET cartesian == norm_exceeds(filter.prev_cartesian_velocity, 3, CartesianThreshold)
            joint == norm_exceeds(filter.prev_joint_velocity, NumJoints, JointThreshold)
        IN  /\ cartesian => filter.mode = CARTESIAN
            /\ ~cartesian /\ joint => filter.mode = JOINT
            /\ ~cartesian /\ ~joint =>
                  /\ filter.mode = ModeNone
                  /\ \A k \in 0..2 : filter.cartesian_displacement[k] = 0
                  /\ \A i \in 0..NumJoints - 1 : filter.joint_displacement[i] = 0

\* a sample on which both channels exceed their thresholds and the mode is
\* CARTESIAN, after a sample on which the joint channel alone did
C21_Witness ==
    /\ filter.samples = 2
    /\ norm_exceeds(filter.prev_cartesian_velocity, 3, CartesianThreshold)
    /\ norm_exceeds(filter.prev_joint_velocity, NumJoints, JointThreshold)
    /\ filter.mode = CARTESIAN
    /\ \E i \in 0..NumJoints - 1 : filter.joint_displacement[i] # 0

\* C22: in Cartesian mode the position handed to the inverse kinematics is
\* the requested one (FK of the current position plus the displacement)
\* clamped to the workspace limits: a component beyond a bound is exactly
\* that bound, a component within the bounds is unchanged.
C22_CartesianTargetClamped ==
    planner.ik_called /\ planner.mode = CARTESIAN =>
        LET lo == [k \in 0..2 |-> CASE k = 0 -> -MaxAbsX [] k = 1 -> -MaxAbsY [] k = 2 -> MinZ]
            hi == [k \in 0..2 |-> CASE k = 0 -> MaxAbsX [] k = 1 -> MaxAbsY [] k = 2 -> MaxZ]
        IN  \A k \in 0..2 :
              LET r == planner.cur_position[k] + planner.cartesian_displacement[k]
                  x == planner.ik_target[k]
              IN  /\ planner.requested[k] = r
                  /\ lo[k] <= x /\ x <= hi[k]
                  /\ r > hi[k] => x = hi[k]
                  /\ r < lo[k] => x = lo[k]
                  /\ lo[k] <= r /\ r <= hi[k] => x = r

\* requested x = 0.6 with max_abs_x = 0.5 gives x = 0.5, and z below min_z
\* gives min_z
C22_Witness ==
    /\ planner.ik_called /\ planner.mode = CARTESIAN
    /\ planner.requested[0] = MaxAbsX + 1 /\ planner.ik_target[0] = MaxAbsX
    /\ planner.requested[2] < MinZ /\ planner.ik_target[2] = MinZ
    /\ planner.requested[1] = planner.ik_target[1]

C24_AlignedBeforeTeleop ==
    follower.last = "update" /\ follower.from = WAITING =>
        LET out == {j \in 0..NumJoints - 1 :
                       abs(follower.position[j] - follower.seen[j]) > AllowedDiff[j + 1]}
        IN  /\ follower.state = TELEOP <=> out = {}
            /\ follower.state # TELEOP =>
                  follower.state = WAITING /\ follower.report = out

\* joint 0 is 31 degrees off with a tolerance of 30, joint 2 is 30 degrees
\* off with a tolerance of 30: the machine waits and names joint 0 only
C24_Witness ==
    /\ follower.last = "update" /\ follower.from = WAITING
    /\ follower.state = WAITING
    /\ abs(follower.position[0] - follower.seen[0]) = 31
    /\ abs(follower.position[2] - follower.seen[2]) = 30
    /\ follower.report = {0}

\* C25: a call of update without an input sample, and a call of update in
\* DISCONNECTED, makes no call but arm.update and arm.send: no set_goal, no
\* gripper command and no cancel, so the goal and the gripper state of the
\* arm are the ones the call found.
C25_NoCommandWithoutInput ==
    IsUpdateCall /\ (~op.input.present \/ op.from = DISCONNECTED) =>
        /\ \A i \in 1..Len(calls) : calls[i] \in {"arm.update", "arm.send"}
        /\ goal = op.goal
        /\ gripper_state = op.gripper

\* the tick that times out in TELEOP with a teleop goal set and the gripper
\* closed: the machine disconnects, the goal and the gripper stay
C25_Witness ==
    /\ IsUpdate /\ ~op.input.present
    /\ op.from = TELEOP /\ state = DISCONNECTED
    /\ goal = TeleopGoal /\ gripper_state = 1

\* C26: update enters TELEOP only when no home goal is pending, i.e. when
\* every home goal set so far was followed by a HOMING tick on which
\* arm.at_goal was read as true, also after the input was lost and resumed.
C26_TeleopAfterHomeReached ==
    IsUpdate /\ state = TELEOP /\ op.from # TELEOP => homing # "pending"

\* ------------------------------------------------------------------------
\* The teach-repeat GUI of TeachRepeatFrame.py: HebiThread.run on the worker
\* thread and the button handlers on the GUI thread, which runs one handler
\* at a time.  A step of either thread is one statement; the checks a
\* handler makes on run_mode and on the lists, which only the GUI thread
\* writes, are one step with the statement that follows them.

\* the most waypoints taught or loaded
MaxWaypoints == 3

\* self.arm.fbk.position when a waypoint is taught: the arm is moved to a
\* new position before each, so that the k-th waypoint of a list is taught
\* at position k
fbk_position(self) == Len(self.waypoints) + 1

\* the numbers a file holds, as csv.writer writes them
Numerals == <<"0", "1", "2", "3", "4", "5">>

\* str(n) of a number a file holds
str(n) == Numerals[n + 1]

\* float(text) of a cell of a file
float(text) == CHOOSE n \in 0..Len(Numerals) - 1 : Numerals[n + 1] = text

\* the files on_load may be given: the joint count, the gripper line, as
\* save_to_csv writes it or empty, and the rows of duration, grip state and
\* position
CsvRows ==
    {<<>>,
     <<[duration |-> "5", grip |-> "0", waypoint |-> "1"]>>,
     <<[duration |-> "5", grip |-> "0", waypoint |-> "1"],
       [duration |-> "2", grip |-> "1", waypoint |-> "2"]>>}
CsvFiles ==
    [dof : {NumJoints, NumJoints + 1}, gripper : {"True", "False", ""}, rows : CsvRows]

non_teach_vars ==
    <<arm_vars, loop_vars, sampler_vars, filter, planner, follower, csv, drive>>

\* ---- the worker thread, HebiThread.run

\* `while not self.abort_flag:` and `self.arm.update()`
WorkerLoop ==
    /\ worker.pc = "loop"
    /\ worker' = [worker EXCEPT
                    !.pc = IF hebi_thread.abort_flag THEN "done" ELSE "mode",
                    !.at_goal = FALSE, !.index = 0, !.next_waypoint = 0,
                    !.next_duration = 0, !.loaded = 0]
    /\ UNCHANGED <<hebi_thread, gui, non_teach_vars>>

\* `if (self.run_mode == "playback"):`
WorkerMode ==
    /\ worker.pc = "mode"
    /\ worker' = [worker EXCEPT
                    !.pc = IF hebi_thread.run_mode = PLAYBACK THEN "at_goal" ELSE "send"]
    /\ UNCHANGED <<hebi_thread, gui, non_teach_vars>>

\* `if self.arm.at_goal:`
WorkerAtGoal(at_goal) ==
    /\ worker.pc = "at_goal"
    /\ worker' = [worker EXCEPT !.at_goal = at_goal,
                                !.pc = IF at_goal THEN "wrap" ELSE "send"]
    /\ UNCHANGED <<hebi_thread, gui, non_teach_vars>>

\* `if self.playback_waypoint == len(self.waypoints):`
WorkerWrap ==
    /\ worker.pc = "wrap"
    /\ worker' = [worker EXCEPT
                    !.pc = IF hebi_thread.playback_waypoint = Len(hebi_thread.waypoints)
                           THEN "reset" ELSE "waypoint"]
    /\ UNCHANGED <<hebi_thread, gui, non_teach_vars>>

\* `self.playback_waypoint = 0`
WorkerReset ==
    /\ worker.pc = "reset"
    /\ hebi_thread' = [hebi_thread EXCEPT !.playback_waypoint = 0]
    /\ worker' = [worker EXCEPT !.pc = "waypoint"]
    /\ UNCHANGED <<gui, non_teach_vars>>

\* `next_waypoint = self.waypoints[self.playback_waypoint]`; an index past
\* the end raises IndexError, which ends the thread
WorkerWaypoint ==
    /\ worker.pc = "waypoint"
    /\ LET i == hebi_thread.playback_waypoint
       IN  worker' = IF i < Len(hebi_thread.waypoints)
                     THEN [worker EXCEPT !.index = i,
                                         !.next_waypoint = hebi_thread.waypoints[i + 1],
                                         !.pc = "duration"]
                     ELSE [worker EXCEPT !.pc = "crashed", !.error = "IndexError"]
    /\ UNCHANGED <<hebi_thread, gui, non_teach_vars>>

\* `next_duration = self.durations[self.playback_waypoint]`
WorkerDuration ==
    /\ worker.pc = "duration"
    /\ LET i == hebi_thread.playback_waypoint
       IN  worker' = IF i < Len(hebi_thread.durations)
                     THEN [worker EXCEPT !.next_duration = hebi_thread.durations[i + 1],
                                         !.pc = "goal"]
                     ELSE [worker EXCEPT !.pc = "crashed", !.error = "IndexError"]
    /\ UNCHANGED <<hebi_thread, gui, non_teach_vars>>

\* `self.arm.createGoal([next_waypoint], duration = [next_duration])` and
\* `self.arm.setGoal()`
WorkerGoal ==
    /\ worker.pc = "goal"
    /\ hebi_thread' = [hebi_thread EXCEPT !.goal = "waypoint"]
    /\ worker' = [worker EXCEPT
                    !.issued = IF hebi_thread.run_mode = PLAYBACK
                               THEN [index |-> worker.index,
                                     waypoint |-> worker.next_waypoint,
                                     duration |-> worker.next_duration,
                                     grip |-> -1, prev |-> worker.issued.index,
                                     at_goal |-> worker.at_goal]
                               ELSE NoIssue,
                    !.pc = "grip"]
    /\ UNCHANGED <<gui, non_teach_vars>>

\* `self.arm.gripper.setState(self.grip_states[self.playback_waypoint])`
WorkerGrip ==
    /\ worker.pc = "grip"
    /\ LET i == hebi_thread.playback_waypoint
       IN  IF i < Len(hebi_thread.grip_states)
           THEN /\ hebi_thread' = [hebi_thread EXCEPT !.gripper = hebi_thread.grip_states[i + 1]]
                /\ worker' = [worker EXCEPT
                                !.issued.grip = IF hebi_thread.run_mode = PLAYBACK
                                                THEN hebi_thread.grip_states[i + 1]
                                                ELSE -1,
                                !.pc = "incr"]
           ELSE /\ worker' = [worker EXCEPT !.pc = "crashed", !.error = "IndexError"]
                /\ UNCHANGED hebi_thread
    /\ UNCHANGED <<gui, non_teach_vars>>

\* `self.playback_waypoint += 1`, the load of the attribute
WorkerIncrLoad ==
    /\ worker.pc = "incr"
    /\ worker' = [worker EXCEPT !.loaded = hebi_thread.playback_waypoint,
                                !.pc = "store"]
    /\ UNCHANGED <<hebi_thread, gui, non_teach_vars>>

\* `self.playback_waypoint += 1`, the store of the sum
WorkerIncrStore ==
    /\ worker.pc = "store"
    /\ hebi_thread' = [hebi_thread EXCEPT !.playback_waypoint = worker.loaded + 1]
    /\ worker' = [worker EXCEPT !.loaded = 0, !.pc = "send"]
    /\ UNCHANGED <<gui, non_teach_vars>>

\* `self.arm.send()`
WorkerSend ==
    /\ worker.pc = "send"
    /\ worker' = [worker EXCEPT !.pc = "loop"]
    /\ UNCHANGED <<hebi_thread, gui, non_teach_vars>>

\* ---- the GUI thread

playback_button_any(self) ==
    IF self.run_mode # TRAINING
    THEN self
    ELSE IF Len(self.waypoints) > 0
         THEN [self EXCEPT !.run_mode = PLAYBACK]
         ELSE self

\* HebiThread.playback_button up to `self.run_mode = "playback"`
playback_button(self) ==
    IF self.run_mode # TRAINING
    THEN self
    ELSE IF Len(self.waypoints) > 1
         THEN [self EXCEPT !.run_mode = PLAYBACK]
         ELSE self

\* on_playback_button: playback_button; when it starts playback the history
\* of the worker's goals starts anew
OnPlaybackButton ==
    /\ gui.pc = "idle"
    /\ hebi_thread' = playback_button(hebi_thread)
    /\ IF hebi_thread'.run_mode # hebi_thread.run_mode
       THEN /\ gui' = [gui EXCEPT !.pc = "playback_109"]
            /\ worker' = [worker EXCEPT !.issued = NoIssue]
       ELSE UNCHANGED <<gui, worker>>
    /\ UNCHANGED non_teach_vars

\* playback_button, `self.playback_waypoint = 0`, then
\* `self.arm.gripper.open()` and `self.arm.send()`
PlaybackButtonStep ==
    /\ gui.pc \in {"playback_109", "playback_110"}
    /\ IF gui.pc = "playback_109"
       THEN /\ hebi_thread' = [hebi_thread EXCEPT !.playback_waypoint = 0]
            /\ gui' = [gui EXCEPT !.pc = "playback_110"]
       ELSE /\ hebi_thread' = [hebi_thread EXCEPT !.gripper = 0]
            /\ gui' = [gui EXCEPT !.pc = "idle"]
    /\ UNCHANGED <<worker, non_teach_vars>>

\* on_training_button: training_button up to `self.run_mode = "training"`
OnTrainingButton ==
    /\ gui.pc = "idle"
    /\ IF hebi_thread.run_mode # PLAYBACK
       THEN UNCHANGED <<hebi_thread, gui, worker>>
       ELSE /\ hebi_thread' = [hebi_thread EXCEPT !.run_mode = TRAINING]
            /\ gui' = [gui EXCEPT !.pc = "training_124"]
            /\ worker' = [worker EXCEPT !.issued = NoIssue]
    /\ UNCHANGED non_teach_vars

\* training_button, `self.arm.cancelGoal()`, after which it returns
TrainingButtonStep ==
    /\ gui.pc = "training_124"
    /\ hebi_thread' = [hebi_thread EXCEPT !.goal = NoGoal]
    /\ gui' = [gui EXCEPT !.pc = "idle"]
    /\ UNCHANGED <<worker, non_teach_vars>>

\* on_add_waypoint: add_waypoint up to `self.waypoints.append(...)`
OnAddWaypoint ==
    /\ gui.pc = "idle"
    /\ Len(hebi_thread.waypoints) < MaxWaypoints
    /\ IF hebi_thread.run_mode = PLAYBACK \/ hebi_thread.run_mode # TRAINING
       THEN UNCHANGED <<hebi_thread, gui>>
       ELSE /\ hebi_thread' = [hebi_thread EXCEPT !.waypoints = Append(@, fbk_position(hebi_thread))]
            /\ gui' = [gui EXCEPT !.pc = "add_74"]
    /\ UNCHANGED <<worker, non_teach_vars>>

\* add_waypoint, `self.durations.append(5)` and
\* `self.grip_states.append(self.arm.gripper.state)`
AddWaypointStep ==
    /\ gui.pc \in {"add_74", "add_75"}
    /\ IF gui.pc = "add_74"
       THEN /\ hebi_thread' = [hebi_thread EXCEPT !.durations = Append(@, 5)]
            /\ gui' = [gui EXCEPT !.pc = "add_75"]
       ELSE /\ hebi_thread' = [hebi_thread EXCEPT
                                  !.grip_states = Append(@, hebi_thread.gripper)]
            /\ gui' = [gui EXCEPT !.pc = "idle"]
    /\ UNCHANGED <<worker, non_teach_vars>>

\* Gripper.toggle: open (0) becomes closed (1) and closed becomes open
toggle(grip_state) == 1 - grip_state

\* on_add_waypoint_toggle: add_waypoint_toggle up to the first
\* `self.waypoints.append(...)`
OnAddWaypointToggle ==
    /\ gui.pc = "idle"
    /\ Len(hebi_thread.waypoints) + 2 <= MaxWaypoints
    /\ IF hebi_thread.run_mode = PLAYBACK \/ hebi_thread.run_mode # TRAINING
       THEN UNCHANGED <<hebi_thread, gui>>
       ELSE /\ hebi_thread' = [hebi_thread EXCEPT !.waypoints = Append(@, fbk_position(hebi_thread))]
            /\ gui' = [gui EXCEPT !.pc = "toggle_86"]
    /\ UNCHANGED <<worker, non_teach_vars>>

\* add_waypoint_toggle, statement by statement from
\* `self.durations.append(5)`
AddWaypointToggleStep ==
    /\ gui.pc \in {"toggle_86", "toggle_87", "toggle_90", "toggle_93",
                   "toggle_94", "toggle_95"}
    /\ hebi_thread' =
          CASE gui.pc = "toggle_86" -> [hebi_thread EXCEPT !.durations = Append(@, 5)]
            [] gui.pc = "toggle_87" ->
                 [hebi_thread EXCEPT !.grip_states = Append(@, hebi_thread.gripper)]
            [] gui.pc = "toggle_90" -> [hebi_thread EXCEPT !.gripper = toggle(@)]
            [] gui.pc = "toggle_93" ->
                 [hebi_thread EXCEPT !.waypoints = Append(@, fbk_position(hebi_thread))]
            [] gui.pc = "toggle_94" -> [hebi_thread EXCEPT !.durations = Append(@, 2)]
            [] gui.pc = "toggle_95" ->
                 [hebi_thread EXCEPT !.grip_states = Append(@, hebi_thread.gripper)]
    /\ gui' = [gui EXCEPT !.pc =
                  CASE gui.pc = "toggle_86" -> "toggle_87"
                    [] gui.pc = "toggle_87" -> "toggle_90"
                    [] gui.pc = "toggle_90" -> "toggle_93"
                    [] gui.pc = "toggle_93" -> "toggle_94"
                    [] gui.pc = "toggle_94" -> "toggle_95"
                    [] gui.pc = "toggle_95" -> "idle"]
    /\ UNCHANGED <<worker, non_teach_vars>>

\* on_clear: clear_waypoints up to `self.waypoints = []`
OnClear ==
    /\ gui.pc = "idle"
    /\ IF hebi_thread.run_mode = PLAYBACK
       THEN UNCHANGED <<hebi_thread, gui>>
       ELSE /\ hebi_thread' = [hebi_thread EXCEPT !.waypoints = <<>>]
            /\ gui' = [gui EXCEPT !.pc = "clear_129"]
    /\ UNCHANGED <<worker, non_teach_vars>>

\* clear_waypoints, `self.durations = []` and `self.grip_states = []`
ClearStep ==
    /\ gui.pc \in {"clear_129", "clear_130"}
    /\ IF gui.pc = "clear_129"
       THEN /\ hebi_thread' = [hebi_thread EXCEPT !.durations = <<>>]
            /\ gui' = [gui EXCEPT !.pc = "clear_130"]
       ELSE /\ hebi_thread' = [hebi_thread EXCEPT !.grip_states = <<>>]
            /\ gui' = [gui EXCEPT !.pc = "idle"]
    /\ UNCHANGED <<worker, non_teach_vars>>

\* bool(rows[1]): a string is true unless it is empty
bool(text) == text # ""

\* load_from_csv, the check of the file against the arm: int(rows[0]) against
\* self.arm.group.size and bool(rows[1]) against `self.arm.gripper is not None`
compatible(file) == file.dof = NumJoints /\ bool(file.gripper) = csv.has_gripper

\* on_load: load_from_csv of the chosen file up to `self.waypoints = []`
OnLoad(file) ==
    /\ gui.pc = "idle"
    /\ IF hebi_thread.run_mode = PLAYBACK \/ ~compatible(file)
       THEN UNCHANGED <<hebi_thread, gui>>
       ELSE /\ hebi_thread' = [hebi_thread EXCEPT !.waypoints = <<>>]
            /\ gui' = [gui EXCEPT !.pc = "load_153", !.file = file, !.row = 1]
    /\ UNCHANGED <<worker, non_teach_vars>>

\* load_from_csv, statement by statement from `self.grip_states = []`: the
\* fields reset, then for each row the three appends
LoadStep ==
    /\ gui.pc \in {"load_153", "load_154", "load_155", "load_156", "load_171",
                   "load_173", "load_175"}
    /\ hebi_thread' =
          CASE gui.pc = "load_153" -> [hebi_thread EXCEPT !.grip_states = <<>>]
            [] gui.pc = "load_154" -> [hebi_thread EXCEPT !.durations = <<>>]
            [] gui.pc = "load_155" -> [hebi_thread EXCEPT !.run_mode = TRAINING]
            [] gui.pc = "load_156" -> [hebi_thread EXCEPT !.playback_waypoint = 0]
            [] gui.pc = "load_171" ->
                 [hebi_thread EXCEPT !.durations = Append(@, float(gui.file.rows[gui.row].duration))]
            [] gui.pc = "load_173" ->
                 IF bool(gui.file.gripper)
                 THEN [hebi_thread EXCEPT
                         !.grip_states = Append(@, float(gui.file.rows[gui.row].grip))]
                 ELSE hebi_thread
            [] gui.pc = "load_175" ->
                 [hebi_thread EXCEPT !.waypoints = Append(@, float(gui.file.rows[gui.row].waypoint))]
    /\ LET more(r) == IF r <= Len(gui.file.rows) THEN "load_171" ELSE "idle"
       IN  gui' =
             CASE gui.pc = "load_153" -> [gui EXCEPT !.pc = "load_154"]
               [] gui.pc = "load_154" -> [gui EXCEPT !.pc = "load_155"]
               [] gui.pc = "load_155" -> [gui EXCEPT !.pc = "load_156"]
               [] gui.pc = "load_156" ->
                    IF more(1) = "idle"
                    THEN [gui EXCEPT !.pc = "idle", !.file = NoFile, !.row = 0]
                    ELSE [gui EXCEPT !.pc = "load_171"]
               [] gui.pc = "load_171" -> [gui EXCEPT !.pc = "load_173"]
               [] gui.pc = "load_173" -> [gui EXCEPT !.pc = "load_175"]
               [] gui.pc = "load_175" ->
                    IF more(gui.row + 1) = "idle"
                    THEN [gui EXCEPT !.pc = "idle", !.file = NoFile, !.row = 0]
                    ELSE [gui EXCEPT !.pc = "load_171", !.row = @ + 1]
    /\ UNCHANGED <<worker, non_teach_vars>>

\* on_exit: `self.hebi_thread.abort()` and `self.Close(True)`
OnExit ==
    /\ gui.pc = "idle"
    /\ hebi_thread' = [hebi_thread EXCEPT !.abort_flag = TRUE]
    /\ gui' = [gui EXCEPT !.pc = "closed"]
    /\ UNCHANGED <<worker, non_teach_vars>>

TeachInit ==
    /\ InitObjects
    /\ InitFilter /\ InitPlanner /\ InitFollower /\ InitTeach /\ InitCsv /\ InitDrive
    /\ pc = "teach"

WorkerNext ==
    \/ WorkerLoop
    \/ WorkerMode
    \/ \E at_goal \in BOOLEAN : WorkerAtGoal(at_goal)
    \/ WorkerWrap
    \/ WorkerReset
    \/ WorkerWaypoint
    \/ WorkerDuration
    \/ WorkerGoal
    \/ WorkerGrip
    \/ WorkerIncrLoad
    \/ WorkerIncrStore
    \/ WorkerSend

GuiNext ==
    \/ OnPlaybackButton
    \/ PlaybackButtonStep
    \/ OnTrainingButton
    \/ TrainingButtonStep
    \/ OnAddWaypoint
    \/ AddWaypointStep
    \/ OnAddWaypointToggle
    \/ AddWaypointToggleStep
    \/ OnClear
    \/ ClearStep
    \/ \E file \in CsvFiles : OnLoad(file)
    \/ LoadStep
    \/ OnExit

TeachNext == WorkerNext \/ GuiNext

TeachSpec == TeachInit /\ [][TeachNext]_vars

\* the three lists of a HebiThread
lists(self) == <<self.waypoints, self.durations, self.grip_states>>

\* C27: run_mode is "playback" only with at least two waypoints stored;
\* run_mode becomes "playback" only by playback_button, pressed in training
\* mode with at least two waypoints stored; and no step changes the waypoint
\* lists while run_mode is "playback".
C27_PlaybackHasWaypoints ==
    /\ [](hebi_thread.run_mode = PLAYBACK => Len(hebi_thread.waypoints) >= 2)
    /\ [][/\ hebi_thread.run_mode # PLAYBACK /\ hebi_thread'.run_mode = PLAYBACK
             => /\ gui.pc = "idle" /\ gui'.pc = "playback_109"
                /\ hebi_thread.run_mode = TRAINING
                /\ Len(hebi_thread.waypoints) >= 2
          /\ lists(hebi_thread)' # lists(hebi_thread)
             => hebi_thread.run_mode = TRAINING /\ hebi_thread'.run_mode = TRAINING]_vars

\* C27 witness: playback_button has returned and playback runs over exactly
\* two waypoints, the worker having issued the goals of both.
C27_Witness ==
    /\ pc = "teach"
    /\ gui.pc = "idle"
    /\ hebi_thread.run_mode = PLAYBACK
    /\ Len(hebi_thread.waypoints) = 2
    /\ worker.issued.index = 1
    /\ worker.issued.prev = 0

\* C28: whenever the worker is about to index waypoints, durations or
\* grip_states at playback_waypoint, the index is within the list.
C28_IndexInBounds ==
    /\ worker.pc = "waypoint" => hebi_thread.playback_waypoint < Len(hebi_thread.waypoints)
    /\ worker.pc = "duration" => hebi_thread.playback_waypoint < Len(hebi_thread.durations)
    /\ worker.pc = "grip" => hebi_thread.playback_waypoint < Len(hebi_thread.grip_states)

\* a step of the worker that sets the arm's goal or the gripper's state
WorkerCommands ==
    \/ worker.pc = "goal" /\ worker'.pc = "grip"
    \/ worker.pc = "grip" /\ worker'.pc = "incr"

\* C29: once training_button has cancelled the goal and returned, with
\* run_mode "training", the worker sets no goal and no gripper state while
\* run_mode stays "training".
C29_NoGoalAfterTraining ==
    [][hebi_thread.run_mode = TRAINING /\ gui.pc # "training_124"
         => ~WorkerCommands]_vars

\* C30: while run_mode is "playback", the last goal the worker issued was
\* issued on an iteration where at_goal held, for index 0 if it is the first
\* since playback_button and else for the index after the previous goal's,
\* wrapping at the number of waypoints, with that waypoint's position,
\* duration and gripper state.
C30_GoalsInOrder ==
    hebi_thread.run_mode = PLAYBACK /\ worker.issued.index # -1 =>
        LET n == Len(hebi_thread.waypoints)
            i == worker.issued.index
        IN  /\ worker.issued.at_goal
            /\ i = IF worker.issued.prev = -1 THEN 0 ELSE (worker.issued.prev + 1) % n
            /\ i < n
            /\ worker.issued.waypoint = hebi_thread.waypoints[i + 1]
            /\ worker.issued.duration = hebi_thread.durations[i + 1]
            /\ worker.issued.grip # -1 => worker.issued.grip = hebi_thread.grip_states[i + 1]

\* the lengths of the three lists of a HebiThread
lengths(self) == <<Len(self.waypoints), Len(self.durations), Len(self.grip_states)>>

\* a handler returns
Returns(from) == gui.pc \in from /\ gui'.pc = "idle"

\* C31: whenever no handler is running the three lists have equal length;
\* add_waypoint returns with one entry more in each list; add_waypoint_toggle
\* has one entry more in each after its first three appends and returns with
\* a second, of duration 2 and with the gripper state the opposite of the
\* first's; clear_waypoints returns with three empty lists and load_from_csv
\* with one entry in each list per row of the file.
C31_ListsOfEqualLength ==
    /\ [](gui.pc = "idle" =>
            /\ Len(hebi_thread.waypoints) = Len(hebi_thread.durations)
            /\ Len(hebi_thread.waypoints) = Len(hebi_thread.grip_states))
    /\ [][LET n == Len(hebi_thread.grip_states)
              one_more == lengths(hebi_thread)' = <<n + 1, n + 1, n + 1>>
          IN  /\ Returns({"add_75"}) => one_more
              /\ gui.pc = "toggle_87" /\ gui'.pc = "toggle_90" => one_more
              /\ Returns({"toggle_95"}) =>
                    /\ one_more
                    /\ hebi_thread'.durations[n + 1] = 2
                    /\ hebi_thread'.grip_states[n + 1] = 1 - hebi_thread'.grip_states[n]
              /\ Returns({"clear_130"}) => lengths(hebi_thread)' = <<0, 0, 0>>
              /\ Returns({"load_156", "load_175"}) =>
                    LET rows == Len(gui.file.rows)
                    IN  lengths(hebi_thread)' = <<rows, rows, rows>>]_vars

\* ------------------------------------------------------------------------
\* The waypoint files of TeachRepeatFrame.py: the methods of HebiThread that
\* on_add_waypoint, on_add_waypoint_toggle, on_clear, on_save and on_load
\* call in training mode, each run to its end, on an arm with or without a
\* gripper.  csv.op is the last of them with what it returned or raised;
\* csv.disk is the file last saved and csv.saved the thread as it was then.

non_csv_vars ==
    <<arm_vars, loop_vars, sampler_vars, filter, planner, follower, worker, gui, drive>>

\* what a method did
Did(name, value, exception, file, before) ==
    [name |-> name, ret |-> value, raised |-> exception, file |-> file,
     before |-> before]

\* add_waypoint in training mode; on an arm without a gripper
\* `self.arm.gripper.state` raises after the first two appends
add_waypoint(self, curr_has_gripper) ==
    LET two == [self EXCEPT !.waypoints = Append(@, fbk_position(self)),
                            !.durations = Append(@, 5)]
    IN  IF curr_has_gripper
        THEN [self |-> [two EXCEPT !.grip_states = Append(@, self.gripper)],
              raised |-> "none"]
        ELSE [self |-> two, raised |-> "AttributeError"]

\* add_waypoint_toggle in training mode: the first waypoint, the toggle and
\* the second waypoint
add_waypoint_toggle(self, curr_has_gripper) ==
    LET first == add_waypoint(self, curr_has_gripper)
        toggled == [first.self EXCEPT !.gripper = toggle(@)]
    IN  IF first.raised # "none"
        THEN first
        ELSE [self |-> [toggled EXCEPT
                          !.waypoints = Append(@, fbk_position(toggled)),
                          !.durations = Append(@, 2),
                          !.grip_states = Append(@, toggled.gripper)],
              raised |-> "none"]

\* save_to_csv: the joint count, the line True or False, and a row per
\* waypoint, the grip state 0 on an arm without a gripper
save_to_csv(self, curr_has_gripper) ==
    [dof |-> NumJoints,
     gripper |-> IF curr_has_gripper THEN "True" ELSE "False",
     rows |-> [i \in 1..Len(self.waypoints) |->
                 [duration |-> str(self.durations[i]),
                  grip |-> IF curr_has_gripper THEN str(self.grip_states[i]) ELSE str(0),
                  waypoint |-> str(self.waypoints[i])]]]

\* load_from_csv: False for a file that is not compatible, else the fields
\* reset and the rows read, the grip states only if bool(rows[1])
load_from_csv(self, file) ==
    IF ~compatible(file)
    THEN [self |-> self, ret |-> "False"]
    ELSE [self |-> [self EXCEPT
                      !.waypoints = [i \in 1..Len(file.rows) |-> float(file.rows[i].waypoint)],
                      !.durations = [i \in 1..Len(file.rows) |-> float(file.rows[i].duration)],
                      !.grip_states = IF bool(file.gripper)
                                      THEN [i \in 1..Len(file.rows) |-> float(file.rows[i].grip)]
                                      ELSE <<>>,
                      !.run_mode = TRAINING,
                      !.playback_waypoint = 0],
          ret |-> "None"]

\* an arm with or without a gripper, and a thread just constructed
CsvInit ==
    /\ InitObjects
    /\ InitFilter /\ InitPlanner /\ InitFollower /\ InitTeach /\ InitDrive
    /\ \E curr_has_gripper \in BOOLEAN :
          csv = [has_gripper |-> curr_has_gripper, disk |-> NoFile, saved |-> <<>>,
                 op |-> NoCsvOp]
    /\ pc = "csv"

\* on_add_waypoint
CsvAddWaypoint ==
    /\ Len(hebi_thread.waypoints) < MaxWaypoints
    /\ LET did == add_waypoint(hebi_thread, csv.has_gripper)
       IN  /\ hebi_thread' = did.self
           /\ csv' = [csv EXCEPT !.op = Did("add_waypoint", "None", did.raised, NoFile, <<>>)]
    /\ UNCHANGED non_csv_vars

\* on_add_waypoint_toggle
CsvAddWaypointToggle ==
    /\ Len(hebi_thread.waypoints) + 2 <= MaxWaypoints
    /\ LET did == add_waypoint_toggle(hebi_thread, csv.has_gripper)
       IN  /\ hebi_thread' = did.self
           /\ csv' = [csv EXCEPT
                        !.op = Did("add_waypoint_toggle", "None", did.raised, NoFile, <<>>)]
    /\ UNCHANGED non_csv_vars

\* on_clear: clear_waypoints
CsvClear ==
    /\ hebi_thread' = [hebi_thread EXCEPT !.waypoints = <<>>, !.durations = <<>>,
                                          !.grip_states = <<>>]
    /\ csv' = [csv EXCEPT !.op = Did("clear_waypoints", "None", "none", NoFile, <<>>)]
    /\ UNCHANGED non_csv_vars

\* on_save with at least one waypoint: save_to_csv into the file chosen
CsvSave ==
    /\ Len(hebi_thread.waypoints) >= 1
    /\ csv' = [csv EXCEPT
                 !.disk = save_to_csv(hebi_thread, csv.has_gripper),
                 !.saved = [waypoints |-> hebi_thread.waypoints,
                            durations |-> hebi_thread.durations],
                 !.op = Did("save_to_csv", "None", "none", NoFile, <<>>)]
    /\ UNCHANGED <<hebi_thread, non_csv_vars>>

\* on_load of the file chosen: load_from_csv
CsvLoad(file) ==
    /\ file # NoFile
    /\ LET did == load_from_csv(hebi_thread, file)
       IN  /\ hebi_thread' = did.self
           /\ csv' = [csv EXCEPT
                        !.op = Did("load_from_csv", did.ret, "none", file, hebi_thread)]
    /\ UNCHANGED non_csv_vars

CsvNext ==
    \/ CsvAddWaypoint
    \/ CsvAddWaypointToggle
    \/ CsvClear
    \/ CsvSave
    \/ \E file \in CsvFiles \cup {csv.disk} : CsvLoad(file)

CsvSpec == CsvInit /\ [][CsvNext]_vars

\* the line save_to_csv writes for an arm
gripper_flag(curr_has_gripper) == IF curr_has_gripper THEN "True" ELSE "False"

\* C32: load_from_csv returns False exactly when the file's joint count or
\* its gripper flag differs from the arm's, and then leaves the thread as it
\* was; the file last written by save_to_csv on this arm is accepted and the
\* waypoints and durations are then those that were saved.
C32_LoadRejectsOnMismatch ==
    csv.op.name = "load_from_csv" =>
        /\ csv.op.ret = "False" <=>
              \/ csv.op.file.dof # NumJoints
              \/ csv.op.file.gripper # gripper_flag(csv.has_gripper)
        /\ csv.op.ret = "False" => hebi_thread = csv.op.before
        /\ csv.op.file = csv.disk =>
              /\ csv.op.ret # "False"
              /\ hebi_thread.waypoints = csv.saved.waypoints
              /\ hebi_thread.durations = csv.saved.durations

\* ------------------------------------------------------------------------
\* The loop of diff_drive.py.  The phone's axes x and y and TurnScale are in
\* tenths; Left, Right and the wheel velocities are in thousandths, so that
\* the products of l.81-90 are exact.  drive.sent is what the current
\* iteration has sent and drive.before the velocity group_command held when
\* the iteration began.

\* TurnLimit = 0.5
TurnLimit == 5

\* SpeedScale = 5.0
SpeedScale == 5

\* the 1.0 of l.68-79 and the 1 of l.87-90
Unit == 10

\* the axis values the phone reports
AxisLevels == {-10, -6, -5, -2, 0, 2, 5, 10}

\* get_next_feedback returned None
NoFeedback == [present |-> FALSE, x |-> 0, y |-> 0, abort |-> 0]

\* what get_next_feedback may return
PhoneFeedbacks ==
    {NoFeedback} \cup [present : {TRUE}, x : AxisLevels, y : AxisLevels, abort : {0, 1}]

non_drive_vars ==
    <<arm_vars, loop_vars, sampler_vars, filter, planner, follower, teach_vars, csv>>

read_inputs_held(self, group_fbk) ==
    IF ~group_fbk.present
    THEN [self EXCEPT !.lost = TRUE, !.abort = 0]
    ELSE [self EXCEPT !.lost = FALSE, !.x = group_fbk.x, !.y = group_fbk.y,
                      !.abort = group_fbk.abort]

\* l.54-64: x, y and abort, zero when the feedback is None
read_inputs(self, group_fbk) ==
    IF ~group_fbk.present
    THEN [self EXCEPT !.lost = TRUE, !.x = 0, !.y = 0, !.abort = 0]
    ELSE [self EXCEPT !.lost = FALSE, !.x = group_fbk.x, !.y = group_fbk.y,
                      !.abort = group_fbk.abort]

\* l.66-90: Left, Right and TurnScale from x and y
mix(self) ==
    LET x == self.x
        y == self.y
        Left1 == IF y >= 0
                 THEN (IF x <= 0 THEN Unit ELSE Unit + x)
                 ELSE (IF x <= 0 THEN Unit - x ELSE Unit)
        Right1 == IF y >= 0
                  THEN (IF x <= 0 THEN Unit - x ELSE Unit)
                  ELSE (IF x <= 0 THEN Unit ELSE Unit + x)
        Left2 == Left1 * y
        Right2 == Right1 * y
        TurnScale == IF abs(y) > TurnLimit
                     THEN 0
                     ELSE Unit - (abs(y) * Unit) \div TurnLimit
    IN  [self EXCEPT
           !.Left = ((Unit - TurnScale) * Left2 + TurnScale * x * Unit) * SpeedScale,
           !.Right = ((Unit - TurnScale) * Right2 + TurnScale * x * (-Unit)) * SpeedScale,
           !.TurnScale = TurnScale]

command_sends_first(self) ==
    LET velocity == <<self.Left, -self.Right>>
    IN  IF self.abort = 1
        THEN [self EXCEPT !.velocity = <<0, 0>>,
                          !.sent = Append(Append(@, velocity), <<0, 0>>),
                          !.pc = "exited"]
        ELSE [self EXCEPT !.velocity = velocity, !.sent = Append(@, velocity),
                          !.pc = "feedback"]

\* l.92-98: on abort the zero velocity is sent and the program exits, else
\* [Left, -Right] is sent
command(self) ==
    LET velocity == <<self.Left, -self.Right>>
    IN  IF self.abort = 1
        THEN [self EXCEPT !.velocity = <<0, 0>>, !.sent = Append(@, <<0, 0>>),
                          !.pc = "exited"]
        ELSE [self EXCEPT !.velocity = velocity, !.sent = Append(@, velocity),
                          !.pc = "feedback"]

DriveInit ==
    /\ InitObjects
    /\ InitFilter /\ InitPlanner /\ InitFollower /\ InitTeach /\ InitCsv /\ InitDrive
    /\ pc = "drive"

\* l.52-64: an iteration begins with the phone's feedback, or none
GetNextFeedback(group_fbk) ==
    /\ drive.pc = "feedback"
    /\ drive' = [read_inputs(drive, group_fbk) EXCEPT
                   !.before = drive.velocity, !.sent = <<>>, !.pc = "mix"]
    /\ UNCHANGED non_drive_vars

\* l.66-90
Mix ==
    /\ drive.pc = "mix"
    /\ drive' = [mix(drive) EXCEPT !.pc = "command"]
    /\ UNCHANGED non_drive_vars

\* l.92-98
SendCommand ==
    /\ drive.pc = "command"
    /\ drive' = command(drive)
    /\ UNCHANGED non_drive_vars

DriveNext ==
    \/ \E group_fbk \in PhoneFeedbacks : GetNextFeedback(group_fbk)
    \/ Mix
    \/ SendCommand

DriveSpec == DriveInit /\ [][DriveNext]_vars

\* C33: an iteration in which get_next_feedback returned None has sent one
\* command, the velocity [0, 0], whatever velocity was commanded before.
C33_ZeroOnLostFeedback ==
    drive.lost /\ drive.pc \notin {"mix", "command"} =>
        drive.sent = << <<0, 0>> >>

\* C33 witness: an iteration without feedback has sent [0, 0] after an
\* iteration that commanded both wheels to turn.
C33_Witness ==
    /\ pc = "drive"
    /\ drive.lost
    /\ drive.pc = "feedback"
    /\ drive.sent = << <<0, 0>> >>
    /\ drive.before # <<>>
    /\ drive.before[1] # 0
    /\ drive.before[2] # 0

\* C34: an iteration in which the phone reported abort = 1 ends with the
\* program exited, having sent one command, the velocity [0, 0]; the program
\* exits in no other iteration, and nothing is sent or changed once it has
\* exited.
C34_AbortStopsAndExits ==
    /\ [](/\ drive.abort = 1 /\ drive.pc \notin {"mix", "command"} =>
               drive.pc = "exited" /\ drive.sent = << <<0, 0>> >>
          /\ drive.pc = "exited" => drive.abort = 1)
    /\ [][drive.pc = "exited" => drive' = drive]_vars

\* C34 witness: the program has exited on abort in an iteration whose x and y
\* gave non-zero wheel velocities, after an iteration that commanded both
\* wheels to turn.
C34_Witness ==
    /\ pc = "drive"
    /\ drive.pc = "exited"
    /\ drive.Left # 0
    /\ drive.Right # 0
    /\ drive.before # <<>>
    /\ drive.before[1] # 0
    /\ drive.sent = << <<0, 0>> >>

====
